---------------------------- MODULE Spec2Model ----------------------------
(***************************************************************************)
(* A model of the bot arena game (src/game.js): the tweak plugin registry, *)
(* the Bot entity, the per-tick update pipeline (integration, wall and     *)
(* bot-bot collision, weak-spot hit detection, win condition) and the      *)
(* match lifecycle driven by frame callbacks.                              *)
(*                                                                         *)
(* Numbers.  JavaScript numbers are modelled in fixed point:               *)
(*   lengths and velocities   in 1/Scale of a pixel,                       *)
(*   unit vectors             in 1/UnitScale,                              *)
(*   angles in radians        in milliradians,                             *)
(*   angles in degrees        in tenths of a degree,                       *)
(*   wall-clock time          in milliseconds.                             *)
(* Every operation rounds to the nearest representable value.              *)
(***************************************************************************)
EXTENDS Integers, Sequences, FiniteSets, TLC

(***************************************************************************)
(* Fixed-point arithmetic                                                  *)
(***************************************************************************)
Scale == 16
UnitScale == 1024

Abs(a) == IF a < 0 THEN -a ELSE a
Sign(a) == IF a < 0 THEN -1 ELSE 1
Min(a, b) == IF a < b THEN a ELSE b
Max(a, b) == IF a > b THEN a ELSE b

\* a / b rounded to the nearest integer (b > 0), halves away from zero.
RoundDiv(a, b) == Sign(a) * ((2 * Abs(a) + b) \div (2 * b))

\* JavaScript's % : the remainder takes the sign of the dividend.
JsMod(a, b) == Sign(a) * (Abs(a) % b)

RECURSIVE SqrtIter(_, _)
SqrtIter(n, g) ==
    LET h == (g + n \div g) \div 2
    IN  IF h >= g THEN g ELSE SqrtIter(n, h)

\* A power of two that is at least sqrt(n) and less than twice it.
SqrtGuess(n) ==
    CASE n < 4 -> 2 [] n < 16 -> 4 [] n < 64 -> 8 [] n < 256 -> 16
      [] n < 1024 -> 32 [] n < 4096 -> 64 [] n < 16384 -> 128
      [] n < 65536 -> 256 [] n < 262144 -> 512 [] n < 1048576 -> 1024
      [] n < 4194304 -> 2048 [] n < 16777216 -> 4096
      [] n < 67108864 -> 8192 [] n < 268435456 -> 16384
      [] n < 1073741824 -> 32768 [] OTHER -> 46341

\* floor(sqrt(n)) by Newton's iteration.
FloorSqrt(n) == IF n < 2 THEN n ELSE SqrtIter(n, SqrtGuess(n))

\* Math.sqrt, rounded to the nearest integer.
Sqrt(n) ==
    LET f == FloorSqrt(n)
    IN  IF n - f * f > f THEN f + 1 ELSE f

(***************************************************************************)
(* Vector2 (src/game.js 430-470)                                           *)
(***************************************************************************)
Vector2(x, y) == [x |-> x, y |-> y]

VAdd(a, b) == Vector2(a.x + b.x, a.y + b.y)

VSubtract(a, b) == Vector2(a.x - b.x, a.y - b.y)

\* multiply(scalar) for a scalar num/den
VMultiply(v, num, den) == Vector2(RoundDiv(v.x * num, den), RoundDiv(v.y * num, den))

VDot(a, b) == a.x * b.x + a.y * b.y

MagSq(v) == v.x * v.x + v.y * v.y

VMagnitude(v) == Sqrt(MagSq(v))

\* VMagnitude(v) < r and VMagnitude(v) > r for an integer r >= 0, decided on
\* the squares: Sqrt(n) rounds to the nearest integer, so Sqrt(n) < r exactly
\* when n <= r * r - r, and Sqrt(n) > r exactly when n > r * r + r.
MagnitudeLess(v, r) == r > 0 /\ MagSq(v) <= r * r - r
MagnitudeGreater(v, r) == MagSq(v) > r * r + r

\* The largest power of two k with m2 * k * k < 2^28: the precision at which
\* normalize computes the square root of m2.
NormK(m2) ==
    CASE m2 <= 0 -> 1
      [] m2 < 4 -> 8192
      [] m2 < 16 -> 4096
      [] m2 < 64 -> 2048
      [] m2 < 256 -> 1024
      [] m2 < 1024 -> 512
      [] m2 < 4096 -> 256
      [] m2 < 16384 -> 128
      [] m2 < 65536 -> 64
      [] m2 < 262144 -> 32
      [] m2 < 1048576 -> 16
      [] m2 < 4194304 -> 8
      [] m2 < 16777216 -> 4
      [] m2 < 67108864 -> 2
      [] OTHER -> 1

\* normalize(): the zero vector when the magnitude is 0, else a unit vector
\* (in 1/UnitScale).
VNormalize(v) ==
    LET m2 == MagSq(v)
        k  == NormK(m2)
        mk == Sqrt(m2 * k * k)
    IN  IF m2 = 0 THEN Vector2(0, 0)
        ELSE Vector2(RoundDiv(v.x * k * UnitScale, mk), RoundDiv(v.y * k * UnitScale, mk))

(***************************************************************************)
(* Angles: Math.PI, Math.atan2, Math.cos, Math.sin                         *)
(***************************************************************************)
\* Math.PI in milliradians.
PiMilli == 3142

\* atan(2^-i) in microradians, i = 0..13.
AtanTable ==
    <<785398, 463648, 244979, 124355, 62419, 31240, 15624, 7812,
      3906, 1953, 977, 488, 244, 122>>

Pow2(i) == CASE i = 0 -> 1 [] i = 1 -> 2 [] i = 2 -> 4 [] i = 3 -> 8
             [] i = 4 -> 16 [] i = 5 -> 32 [] i = 6 -> 64 [] i = 7 -> 128
             [] i = 8 -> 256 [] i = 9 -> 512 [] i = 10 -> 1024
             [] i = 11 -> 2048 [] i = 12 -> 4096 [] OTHER -> 8192

\* CORDIC, vectoring mode: rotate (x, y), x > 0, onto the x axis; z collects
\* the angle turned, in microradians.
RECURSIVE CordicVec(_, _, _, _)
CordicVec(x, y, z, i) ==
    IF i >= Len(AtanTable) \/ y = 0 THEN z
    ELSE LET d == IF y > 0 THEN 1 ELSE -1
             step == <<x + d * RoundDiv(y, Pow2(i)), y - d * RoundDiv(x, Pow2(i)),
                       z + d * AtanTable[i + 1]>>
         IN  CordicVec(step[1], step[2], step[3], i + 1)

\* The factor that brings the larger of |x|, |y| near 2^20.
UpK(m) ==
    CASE m <= 0 -> 1
      [] m < 2 -> 524288
      [] m < 4 -> 262144
      [] m < 8 -> 131072
      [] m < 16 -> 65536
      [] m < 32 -> 32768
      [] m < 64 -> 16384
      [] m < 128 -> 8192
      [] m < 256 -> 4096
      [] m < 512 -> 2048
      [] m < 1024 -> 1024
      [] m < 2048 -> 512
      [] m < 4096 -> 256
      [] m < 8192 -> 128
      [] m < 16384 -> 64
      [] m < 32768 -> 32
      [] m < 65536 -> 16
      [] m < 131072 -> 8
      [] m < 262144 -> 4
      [] m < 524288 -> 2
      [] OTHER -> 1

\* Math.atan2(y, x) in milliradians, in (-pi, pi].
Atan2(y, x) ==
    LET k == UpK(Max(Abs(x), Abs(y)))
    IN  IF x = 0 /\ y = 0 THEN 0
        ELSE IF x > 0 THEN RoundDiv(CordicVec(x * k, y * k, 0, 0), 1000)
        ELSE IF x = 0 THEN (IF y > 0 THEN RoundDiv(PiMilli, 2) ELSE -RoundDiv(PiMilli, 2))
        ELSE IF y >= 0 THEN PiMilli + RoundDiv(CordicVec(-x * k, -y * k, 0, 0), 1000)
        ELSE -PiMilli + RoundDiv(CordicVec(-x * k, -y * k, 0, 0), 1000)

\* CORDIC, rotation mode: rotate (x, y) by z microradians, |z| <= pi/2.
\* The result is scaled by the CORDIC gain 1.64676.
RECURSIVE CordicRot(_, _, _, _)
CordicRot(x, y, z, i) ==
    IF i >= Len(AtanTable) THEN Vector2(x, y)
    ELSE IF z >= 0
         THEN CordicRot(x - RoundDiv(y, Pow2(i)), y + RoundDiv(x, Pow2(i)),
                        z - AtanTable[i + 1], i + 1)
         ELSE CordicRot(x + RoundDiv(y, Pow2(i)), y - RoundDiv(x, Pow2(i)),
                        z + AtanTable[i + 1], i + 1)

\* (Math.cos(a), Math.sin(a)) in 1/UnitScale, a in microradians in [0, 2 pi].
CosSin(a) ==
    LET pi == 3141593
        \* 1/gain * 2^20 = 636751
        q  == IF a <= pi \div 2 THEN 0 ELSE IF a <= (3 * pi) \div 2 THEN 1 ELSE 2
        r  == CordicRot(636751, 0, a - q * pi, 0)
        s  == IF q = 1 THEN -1 ELSE 1
    IN  Vector2(s * RoundDiv(r.x, 1048576 \div UnitScale),
                s * RoundDiv(r.y, 1048576 \div UnitScale))

\* radians (milliradians) to degrees (tenths of a degree): a * 180 / Math.PI
ToDegrees(a) == RoundDiv(a * 1800, PiMilli)

(***************************************************************************)
(* GAME_CONFIG (src/game.js 2-36), in pixels, milliseconds and radians     *)
(***************************************************************************)
ArenaCenterX == 400
ArenaCenterY == 300
ArenaRadius == 250
ArenaSides == 8
BotRadius == 25
BotSpeed == 8
MaxSpeed == 12
\* heelArcAngle: Math.PI * 0.6
HeelArcAngle == RoundDiv(PiMilli * 6, 10)
\* physics.friction 1.0, in thousandths
FrictionMilli == 1000
MaxHealth == 5
InvulnerabilityTime == 1000
\* mobile.reducedParticles, as detectMobile leaves it on a desktop display
ReducedParticles == FALSE

\* RegenerationTweak: one life every 60000 ms
RegenInterval == 60000
\* ExtraLifeTweak: 6 lives
ExtraLifeHealth == 6
\* SmallerSizeTweak: radius * 0.7, in tenths
SmallerFactorTenths == 7
\* the buffer of the distance gate of isPointInAchillesHeel, in pixels
HeelBuffer == 10
\* bodyAngle += 0.02 per tick, in milliradians
BodyAngleStep == 20
\* Particle: life 1.0 decaying by 0.02 per tick, in hundredths
ParticleLife == 100
ParticleDecay == 2
\* squashScale values, in hundredths
SquashFull == 100
SquashHit == 70
SquashCollide == 80
SquashRecover == 5
\* deltaTime of update(): 16 ms assumed
DeltaTime == 16

(***************************************************************************)
(* Arena (generateArenaVertices, src/game.js 774-788)                      *)
(***************************************************************************)
ArenaVertex(i) ==
    LET cs == CosSin((i * 6283185) \div ArenaSides)
    IN  Vector2(ArenaCenterX * Scale + RoundDiv(cs.x * ArenaRadius * Scale, UnitScale),
                ArenaCenterY * Scale + RoundDiv(cs.y * ArenaRadius * Scale, UnitScale))

ArenaVertices == [i \in 1..ArenaSides |-> ArenaVertex(i - 1)]

(***************************************************************************)
(* Tweak plugins and the registry (src/game.js 65-158)                     *)
(***************************************************************************)
\* null, and a field that was never assigned
Null == -1

\* A plugin instance: its id, its class and which instance of the class it is
TweakPlugin(id, class, inst) == [id |-> id, class |-> class, inst |-> inst]

NoTweak == TweakPlugin("none", "NoTweak", 0)
SmallerSizeTweak == TweakPlugin("smaller", "SmallerSizeTweak", 0)
ExtraLifeTweak == TweakPlugin("extra-life", "ExtraLifeTweak", 0)
RegenerationTweak == TweakPlugin("regeneration", "RegenerationTweak", 0)

\* A register that keeps the plugin an id already has
RegisterKeepsFirst(tweaks, tweak) ==
    [id \in DOMAIN tweaks \cup {tweak.id} |->
        IF id \in DOMAIN tweaks THEN tweaks[id] ELSE tweak]

\* TweakRegistry.register: this.tweaks.set(tweak.id, tweak)
Register(tweaks, tweak) ==
    [id \in DOMAIN tweaks \cup {tweak.id} |->
        IF id = tweak.id THEN tweak ELSE tweaks[id]]

\* What Map.get gives for a key the map does not hold
Undefined == TweakPlugin("undefined", "undefined", 0)

\* A get without the fallback: this.tweaks.get(id)
RegistryGetNoFallback(tweaks, id) ==
    IF id \in DOMAIN tweaks THEN tweaks[id] ELSE Undefined

\* TweakRegistry.get: this.tweaks.get(id) || this.tweaks.get('none')
RegistryGet(tweaks, id) ==
    IF id \in DOMAIN tweaks THEN tweaks[id]
    ELSE IF "none" \in DOMAIN tweaks THEN tweaks["none"]
    ELSE Undefined

\* new TweakRegistry(): registerBuiltInTweaks
EmptyMap == [id \in {} |-> NoTweak]
NewTweakRegistry ==
    Register(Register(Register(Register(EmptyMap, NoTweak), SmallerSizeTweak),
                      ExtraLifeTweak), RegenerationTweak)

(***************************************************************************)
(* Particles (src/game.js 660-692, 1169-1178).  A particle is its life;    *)
(* its position, velocity, colour and size are drawn only.                 *)
(***************************************************************************)
NewParticles(count) == [i \in 1..count |-> ParticleLife]

CreateOptimizedParticles(ps, count) ==
    ps \o NewParticles(IF ReducedParticles THEN (count + 1) \div 2 ELSE count)

\* Particle.update
ParticleUpdate(life) == life - ParticleDecay

\* An isDead that lets a particle of life 0 live
IsDeadBelowZero(life) == life < 0

\* Particle.isDead
IsDead(life) == life <= 0

\* array.filter: the elements satisfying the test, in order
FilterAlive(ps) == SelectSeq(ps, LAMBDA life : ~IsDead(life))

(***************************************************************************)
(* Plugin hooks.  Each takes and returns the bot (and the particle list    *)
(* where the hook emits particles); now is the reading of Date.now().      *)
(***************************************************************************)
\* The bot's id as it is written in the log
BotTag(bot) == IF bot.id = 0 THEN "0" ELSE "1"

\* The result r of a call, with the call itself put in front of what it logged
Logged(entry, r) == [r EXCEPT !.log = <<entry>> \o r.log]

OnBotInit(bot, now) ==
    CASE bot.tweakPlugin.class = "SmallerSizeTweak" ->
            [bot EXCEPT !.radius = RoundDiv(BotRadius * Scale * SmallerFactorTenths, 10)]
      [] bot.tweakPlugin.class = "ExtraLifeTweak" ->
            [bot EXCEPT !.health = ExtraLifeHealth, !.maxHealth = ExtraLifeHealth]
      [] bot.tweakPlugin.class = "RegenerationTweak" ->
            [bot EXCEPT !.lastRegenTime = now]
      [] OTHER -> bot

\* A Regeneration that heals without recording the time of the heal
OnBotUpdateNoReset(bot, ps, now) ==
    IF bot.tweakPlugin.class = "RegenerationTweak"
       /\ bot.health < bot.maxHealth
       /\ now - bot.lastRegenTime >= RegenInterval
    THEN [bot |-> [bot EXCEPT !.health = Min(bot.health + 1, bot.maxHealth)],
          particles |-> CreateOptimizedParticles(ps, 10),
          log |-> <<"onBotUpdate:" \o BotTag(bot), "regen:" \o BotTag(bot)>>]
    ELSE [bot |-> bot, particles |-> ps, log |-> <<"onBotUpdate:" \o BotTag(bot)>>]

\* A Regeneration that heals a bot at full health too
OnBotUpdateUncapped(bot, ps, now) ==
    IF bot.tweakPlugin.class = "RegenerationTweak"
       /\ now - bot.lastRegenTime >= RegenInterval
    THEN [bot |-> [bot EXCEPT !.health = bot.health + 1, !.lastRegenTime = now],
          particles |-> CreateOptimizedParticles(ps, 10),
          log |-> <<"onBotUpdate:" \o BotTag(bot), "regen:" \o BotTag(bot)>>]
    ELSE [bot |-> bot, particles |-> ps, log |-> <<"onBotUpdate:" \o BotTag(bot)>>]

\* A Regeneration that heals only while no particle is alive
OnBotUpdateReadsParticles(bot, ps, now) ==
    IF bot.tweakPlugin.class = "RegenerationTweak"
       /\ bot.health < bot.maxHealth
       /\ now - bot.lastRegenTime >= RegenInterval
       /\ ps = <<>>
    THEN [bot |-> [bot EXCEPT !.health = Min(bot.health + 1, bot.maxHealth),
                              !.lastRegenTime = now],
          particles |-> CreateOptimizedParticles(ps, 10),
          log |-> <<"onBotUpdate:" \o BotTag(bot), "regen:" \o BotTag(bot)>>]
    ELSE [bot |-> bot, particles |-> ps, log |-> <<"onBotUpdate:" \o BotTag(bot)>>]

OnBotUpdate(bot, ps, now) ==
    IF bot.tweakPlugin.class = "RegenerationTweak"
       /\ bot.health < bot.maxHealth
       /\ now - bot.lastRegenTime >= RegenInterval
    THEN [bot |-> [bot EXCEPT !.health = Min(bot.health + 1, bot.maxHealth),
                              !.lastRegenTime = now],
          particles |-> CreateOptimizedParticles(ps, 10),
          log |-> <<"onBotUpdate:" \o BotTag(bot), "regen:" \o BotTag(bot)>>]
    ELSE [bot |-> bot, particles |-> ps, log |-> <<"onBotUpdate:" \o BotTag(bot)>>]

OnBotCollision(bot, otherBot) == bot

OnBotDamage(bot, now) == bot

(***************************************************************************)
(* Bot (src/game.js 473-657)                                               *)
(***************************************************************************)
\* A constructor that does not call the plugin's onBotInit
NewBotNoInit(x, y, id, tweakId, velocity, bodyAngle, tweaks, now) ==
    [id |-> id,
     position |-> Vector2(x * Scale, y * Scale),
     velocity |-> velocity,
     tweakId |-> tweakId,
     health |-> MaxHealth,
     maxHealth |-> MaxHealth,
     radius |-> BotRadius * Scale,
     heelArcAngle |-> HeelArcAngle,
     bodyAngle |-> bodyAngle,
     lastHitTime |-> 0,
     squashScale |-> SquashFull,
     lastRegenTime |-> Null,
     stealthMode |-> FALSE,
     stealthEndTime |-> Null,
     tweakPlugin |-> RegistryGet(tweaks, tweakId)]

\* new Bot(x, y, color, id, tweakId): velocity and bodyAngle are the values
\* Math.random() produced.
NewBot(x, y, id, tweakId, velocity, bodyAngle, tweaks, now) ==
    OnBotInit([id |-> id,
               position |-> Vector2(x * Scale, y * Scale),
               velocity |-> velocity,
               tweakId |-> tweakId,
               health |-> MaxHealth,
               maxHealth |-> MaxHealth,
               radius |-> BotRadius * Scale,
               heelArcAngle |-> HeelArcAngle,
               bodyAngle |-> bodyAngle,
               lastHitTime |-> 0,
               squashScale |-> SquashFull,
               lastRegenTime |-> Null,
               stealthMode |-> FALSE,
               stealthEndTime |-> Null,
               tweakPlugin |-> RegistryGet(tweaks, tweakId)], now)

\* An update that moves the bot and does not call the plugin's onBotUpdate
BotUpdateNoHook(bot, ps, now) ==
    LET moved == VAdd(bot.position, bot.velocity)
        slowed == VMultiply(bot.velocity, FrictionMilli, 1000)
        capped == IF MagnitudeGreater(slowed, MaxSpeed * Scale)
                  THEN VMultiply(VNormalize(slowed), MaxSpeed * Scale, UnitScale)
                  ELSE slowed
    IN  [bot |-> [bot EXCEPT !.position = moved,
                             !.velocity = capped,
                             !.squashScale = Min(bot.squashScale + SquashRecover,
                                                 SquashFull),
                             !.bodyAngle = bot.bodyAngle + BodyAngleStep],
         particles |-> ps,
         log |-> <<"update:" \o BotTag(bot)>>]

\* Bot.update
BotUpdate(bot, ps, now) ==
    LET moved == VAdd(bot.position, bot.velocity)
        slowed == VMultiply(bot.velocity, FrictionMilli, 1000)
        capped == IF MagnitudeGreater(slowed, MaxSpeed * Scale)
                  THEN VMultiply(VNormalize(slowed), MaxSpeed * Scale, UnitScale)
                  ELSE slowed
    IN  Logged("update:" \o BotTag(bot),
               OnBotUpdate([bot EXCEPT !.position = moved,
                                       !.velocity = capped,
                                       !.squashScale = Min(bot.squashScale + SquashRecover,
                                                           SquashFull),
                                       !.bodyAngle = bot.bodyAngle + BodyAngleStep],
                           ps, now))

\* Bot.getAchillesHeelArc
GetAchillesHeelArc(bot) ==
    LET heelAngle == bot.bodyAngle + PiMilli
        halfArc == RoundDiv(bot.heelArcAngle, 2)
    IN  [centerAngle |-> heelAngle,
         startAngle |-> heelAngle - halfArc,
         endAngle |-> heelAngle + halfArc]

\* ((a * 180 / Math.PI) + 360) % 360
NormalizeDegrees(a) == JsMod(ToDegrees(a) + 3600, 3600)

\* An angular test that does not handle the arc that wraps through 0
InArcNoWrap(attack, start, end) == attack >= start /\ attack <= end

\* The angular test of isPointInAchillesHeel (lines 563-573)
InArc(attack, start, end) ==
    IF start <= end
    THEN attack >= start /\ attack <= end
    ELSE attack >= start \/ attack <= end

\* An isPointInAchillesHeel without the distance gate of lines 545-549
IsPointInAchillesHeelAnyDistance(bot, point, attackingRadius) ==
    LET vectorToPoint == VSubtract(point, bot.position)
        heel == GetAchillesHeelArc(bot)
    IN  InArc(NormalizeDegrees(Atan2(vectorToPoint.y, vectorToPoint.x)),
              NormalizeDegrees(heel.startAngle),
              NormalizeDegrees(heel.endAngle))

\* Bot.isPointInAchillesHeel
IsPointInAchillesHeel(bot, point, attackingRadius) ==
    LET vectorToPoint == VSubtract(point, bot.position)
        maxCollisionDistance == bot.radius + attackingRadius + HeelBuffer * Scale
        heel == GetAchillesHeelArc(bot)
    IN  IF MagnitudeGreater(vectorToPoint, maxCollisionDistance) THEN FALSE
        ELSE InArc(NormalizeDegrees(Atan2(vectorToPoint.y, vectorToPoint.x)),
                   NormalizeDegrees(heel.startAngle),
                   NormalizeDegrees(heel.endAngle))

\* Bot.isInvulnerable
IsInvulnerable(bot, now) == now - bot.lastHitTime < InvulnerabilityTime

\* A takeDamage that takes two health
TakeDamageTwo(bot, ps, now) ==
    IF now - bot.lastHitTime < InvulnerabilityTime
    THEN [bot |-> bot, particles |-> ps, applied |-> FALSE,
          log |-> <<"takeDamage:" \o BotTag(bot)>>]
    ELSE [bot |-> [bot EXCEPT !.health = bot.health - 2,
                              !.lastHitTime = now,
                              !.squashScale = SquashHit],
          particles |-> CreateOptimizedParticles(ps, 15),
          applied |-> TRUE,
          log |-> <<"takeDamage:" \o BotTag(bot), "onBotDamage:" \o BotTag(bot)>>]

\* A takeDamage whose window still covers the 1000th millisecond
TakeDamageInclusive(bot, ps, now) ==
    IF now - bot.lastHitTime <= InvulnerabilityTime
    THEN [bot |-> bot, particles |-> ps, applied |-> FALSE,
          log |-> <<"takeDamage:" \o BotTag(bot)>>]
    ELSE [bot |-> [bot EXCEPT !.health = bot.health - 1,
                              !.lastHitTime = now,
                              !.squashScale = SquashHit],
          particles |-> CreateOptimizedParticles(ps, 15),
          applied |-> TRUE,
          log |-> <<"takeDamage:" \o BotTag(bot), "onBotDamage:" \o BotTag(bot)>>]

\* A takeDamage that calls the damage hook for an absorbed hit too
TakeDamageHookAlways(bot, ps, now) ==
    IF now - bot.lastHitTime < InvulnerabilityTime
    THEN [bot |-> OnBotDamage(bot, now), particles |-> ps, applied |-> FALSE,
          log |-> <<"takeDamage:" \o BotTag(bot), "onBotDamage:" \o BotTag(bot)>>]
    ELSE [bot |-> OnBotDamage([bot EXCEPT !.health = bot.health - 1,
                                          !.lastHitTime = now,
                                          !.squashScale = SquashHit], now),
          particles |-> CreateOptimizedParticles(ps, 15),
          applied |-> TRUE,
          log |-> <<"takeDamage:" \o BotTag(bot), "onBotDamage:" \o BotTag(bot)>>]

\* Bot.takeDamage: the bot, the particle list, the value returned, and the
\* call and the hook it invoked (log)
TakeDamage(bot, ps, now) ==
    IF now - bot.lastHitTime < InvulnerabilityTime
    THEN [bot |-> bot, particles |-> ps, applied |-> FALSE,
          log |-> <<"takeDamage:" \o BotTag(bot)>>]
    ELSE [bot |-> OnBotDamage([bot EXCEPT !.health = bot.health - 1,
                                          !.lastHitTime = now,
                                          !.squashScale = SquashHit], now),
          particles |-> CreateOptimizedParticles(ps, 15),
          applied |-> TRUE,
          log |-> <<"takeDamage:" \o BotTag(bot), "onBotDamage:" \o BotTag(bot)>>]

(***************************************************************************)
(* Collision and combat (src/game.js 860-990)                              *)
(***************************************************************************)
\* The number that is not one: the value of 0/0, which Math.min and Math.max
\* hand on and every comparison finds false
NaN == -1073741824

\* The projection of checkWallCollision, clamped to [0, 1], in 1/4096:
\* Math.max(0, Math.min(1, dot / lineDot)).  0/0 is NaN, which stays NaN.
ProjScale == 4096
Projection(dot, lineDot) ==
    IF lineDot = 0 THEN NaN
    ELSE IF dot <= 0 THEN 0
    ELSE IF dot >= lineDot THEN ProjScale
    ELSE LET q == (dot * 64) \div lineDot
             r == (dot * 64) % lineDot
         IN  q * 64 + RoundDiv(r * 64, lineDot)

\* One edge of checkWallCollision: botPos and radius are the values read
\* when the function was entered.  With a projection that is NaN, closest and
\* distance are NaN and distance < radius is false.
WallEdge(bot, ps, botPos, radius, v1, v2) ==
    LET line == VSubtract(v2, v1)
        toBotStart == VSubtract(botPos, v1)
        lineDot == VDot(line, line)
        projection == Projection(VDot(toBotStart, line), lineDot)
        closest == VAdd(v1, VMultiply(line, projection, ProjScale))
        diff == VSubtract(botPos, closest)
        distance == VMagnitude(diff)
        normal == VNormalize(diff)
        penetration == radius - distance
        dot == VDot(bot.velocity, normal)
    IN  IF projection # NaN /\ MagnitudeLess(diff, radius)
        THEN [bot |-> [bot EXCEPT
                         !.position = VAdd(bot.position,
                                           VMultiply(normal, penetration, UnitScale)),
                         !.velocity = VSubtract(bot.velocity,
                                           VMultiply(normal, 2 * dot, UnitScale * UnitScale))],
              particles |-> ps \o NewParticles(5),
              hit |-> TRUE]
        ELSE [bot |-> bot, particles |-> ps, hit |-> FALSE]

RECURSIVE WallEdges(_, _, _, _, _, _)
WallEdges(vertices, bot, ps, botPos, radius, i) ==
    IF i > Len(vertices) THEN [bot |-> bot, particles |-> ps]
    ELSE LET r == WallEdge(bot, ps, botPos, radius,
                           vertices[i], vertices[(i % Len(vertices)) + 1])
         IN  IF r.hit
             THEN WallEdges(vertices, r.bot, r.particles, botPos, radius, i + 1)
             ELSE WallEdges(vertices, bot, ps, botPos, radius, i + 1)

\* A checkWallCollision that finds no wall
CheckWallCollisionOpen(vertices, bot, ps) ==
    [bot |-> bot, particles |-> ps]

\* checkWallCollision(bot)
CheckWallCollision(vertices, bot, ps) ==
    WallEdges(vertices, bot, ps, bot.position, bot.radius, 1)

\* A checkAchillesHeelHit that does not look at the target's stealth mode
CheckAchillesHeelHitNoStealth(checkingBot, targetBot, ps, now) ==
    IF IsPointInAchillesHeel(targetBot, checkingBot.position, checkingBot.radius)
    THEN LET d == TakeDamage(targetBot, ps, now)
         IN  [bot |-> d.bot, particles |-> d.particles, called |-> TRUE,
              applied |-> d.applied,
              log |-> <<"heelCheck:" \o BotTag(targetBot)>> \o d.log]
    ELSE [bot |-> targetBot, particles |-> ps, called |-> FALSE, applied |-> FALSE,
          log |-> <<"heelCheck:" \o BotTag(targetBot)>>]

\* checkAchillesHeelHit(checkingBot, targetBot): the target and the particles
CheckAchillesHeelHit(checkingBot, targetBot, ps, now) ==
    IF targetBot.stealthMode
    THEN [bot |-> targetBot, particles |-> ps, called |-> FALSE, applied |-> FALSE,
          log |-> <<"heelCheck:" \o BotTag(targetBot)>>]
    ELSE IF IsPointInAchillesHeel(targetBot, checkingBot.position, checkingBot.radius)
    THEN LET d == TakeDamage(targetBot, ps, now)
         IN  [bot |-> d.bot, particles |-> d.particles, called |-> TRUE,
              applied |-> d.applied,
              log |-> <<"heelCheck:" \o BotTag(targetBot)>> \o d.log]
    ELSE [bot |-> targetBot, particles |-> ps, called |-> FALSE, applied |-> FALSE,
          log |-> <<"heelCheck:" \o BotTag(targetBot)>>]

\* The collision response with a normalize that divides by the magnitude
\* without testing it: for two bots with one center the normal is (0/0, 0/0)
\* and so are the positions and velocities computed from it
ResolveBotCollisionUnguarded(bot1, bot2) ==
    LET distance == VMagnitude(VSubtract(bot1.position, bot2.position))
        minDistance == bot1.radius + bot2.radius
        normal == VNormalize(VSubtract(bot2.position, bot1.position))
        penetration == minDistance - distance
        speed1 == VMagnitude(bot1.velocity)
        speed2 == VMagnitude(bot2.velocity)
    IN  IF bot1.position = bot2.position
        THEN <<[bot1 EXCEPT !.position = Vector2(NaN, NaN),
                            !.velocity = Vector2(NaN, NaN),
                            !.squashScale = SquashCollide],
               [bot2 EXCEPT !.position = Vector2(NaN, NaN),
                            !.velocity = Vector2(NaN, NaN),
                            !.squashScale = SquashCollide]>>
        ELSE <<[bot1 EXCEPT
                  !.position = VSubtract(bot1.position,
                                         VMultiply(normal, penetration, UnitScale)),
                  !.velocity = VMultiply(normal, -speed1, UnitScale),
                  !.squashScale = SquashCollide],
               [bot2 EXCEPT
                  !.position = VAdd(bot2.position,
                                    VMultiply(normal, penetration, UnitScale)),
                  !.velocity = VMultiply(normal, speed2, UnitScale),
                  !.squashScale = SquashCollide]>>

\* The physics of checkBotCollisions (lines 909-927): separation, velocities
\* and squash of the two colliding bots
ResolveBotCollision(bot1, bot2) ==
    LET distance == VMagnitude(VSubtract(bot1.position, bot2.position))
        minDistance == bot1.radius + bot2.radius
        normal == VNormalize(VSubtract(bot2.position, bot1.position))
        penetration == minDistance - distance
        speed1 == VMagnitude(bot1.velocity)
        speed2 == VMagnitude(bot2.velocity)
    IN  <<[bot1 EXCEPT
             !.position = VSubtract(bot1.position, VMultiply(normal, penetration, UnitScale)),
             !.velocity = VMultiply(normal, -speed1, UnitScale),
             !.squashScale = SquashCollide],
          [bot2 EXCEPT
             !.position = VAdd(bot2.position, VMultiply(normal, penetration, UnitScale)),
             !.velocity = VMultiply(normal, speed2, UnitScale),
             !.squashScale = SquashCollide]>>

\* The test of checkBotCollisions: distance < minDistance
BotsCollide(bot1, bot2) ==
    MagnitudeLess(VSubtract(bot1.position, bot2.position), bot1.radius + bot2.radius)

\* One checkAchillesHeelHit(bots[attacker], bots[target]) of checkBotCollisions,
\* on the bots and particles as the collision has left them so far
HeelHitStep(s, attacker, target, now) ==
    LET h == CheckAchillesHeelHit(s.bots[attacker], s.bots[target], s.particles, now)
    IN  [s EXCEPT !.bots[target] = h.bot,
                  !.particles = h.particles,
                  !.called[target] = h.called,
                  !.applied[target] = h.applied,
                  !.log = s.log \o h.log]

\* bot1.tweakPlugin.onBotCollision(bot1, bot2), then
\* bot2.tweakPlugin.onBotCollision(bot2, bot1)
CollisionHooks(s) ==
    LET c1 == OnBotCollision(s.bots[1], s.bots[2])
    IN  [s EXCEPT !.bots = <<c1, OnBotCollision(s.bots[2], c1)>>,
                  !.log = s.log \o <<"onBotCollision:" \o BotTag(s.bots[1]),
                                     "onBotCollision:" \o BotTag(s.bots[2])>>]

\* The bots and particles when the collision test of checkBotCollisions has
\* been made, and what has happened so far
CollisionStart(bs, ps, collided) ==
    [bots |-> bs, particles |-> ps, collided |-> collided,
     called |-> <<FALSE, FALSE>>, applied |-> <<FALSE, FALSE>>,
     log |-> <<"botCollisions">> \o (IF collided THEN <<"collision">> ELSE <<>>)]

\* The separation, the bounce and the squash of the two bots (lines 910-927)
ResolveStep(s) ==
    [s EXCEPT !.bots = ResolveBotCollision(s.bots[1], s.bots[2]),
              !.log = s.log \o <<"resolve">>]

\* A checkBotCollisions that calls the collision hooks after the hit checks
CheckBotCollisionsHooksLast(bs, ps, now) ==
    IF BotsCollide(bs[1], bs[2])
    THEN CollisionHooks(
             HeelHitStep(
                 HeelHitStep(ResolveStep(CollisionStart(bs, ps, TRUE)), 1, 2, now),
                 2, 1, now))
    ELSE CollisionStart(bs, ps, FALSE)

\* A checkBotCollisions that runs the hit checks whether or not the bots
\* collide
CheckBotCollisionsAlwaysChecks(bs, ps, now) ==
    HeelHitStep(
        HeelHitStep(
            IF BotsCollide(bs[1], bs[2])
            THEN ResolveStep(CollisionStart(bs, ps, TRUE))
            ELSE CollisionStart(bs, ps, FALSE),
            1, 2, now),
        2, 1, now)

\* checkBotCollisions(): the bots, the particles and what happened
CheckBotCollisions(bs, ps, now) ==
    IF BotsCollide(bs[1], bs[2])
    THEN HeelHitStep(
             HeelHitStep(
                 CollisionHooks(ResolveStep(CollisionStart(bs, ps, TRUE))),
                 1, 2, now),
             2, 1, now)
    ELSE CollisionStart(bs, ps, FALSE)

\* Bot.draw(ctx): the plugin's onBotDraw is called before the body is drawn
\* (line 621) and again before the heel is drawn (line 645)
BotDraw(bot) ==
    <<"drawBot:" \o BotTag(bot),
      "onBotDraw:" \o BotTag(bot), "body:" \o BotTag(bot),
      "onBotDraw:" \o BotTag(bot), "heel:" \o BotTag(bot)>>

\* draw(): the arena, the particles, then bots.forEach(bot => bot.draw(ctx))
Draw(bs) == <<"draw">> \o BotDraw(bs[1]) \o BotDraw(bs[2])

\* endGame(winnerId)
EndGame(gs, winnerId) ==
    [gs EXCEPT !.gameOver = TRUE, !.winner = winnerId, !.running = FALSE]

\* A win check without the draw: the first dead bot found loses
CheckWinConditionNoDraw(gs, bs) ==
    IF bs[1].health <= 0 THEN EndGame(gs, 1)
    ELSE IF bs[2].health <= 0 THEN EndGame(gs, 0)
    ELSE gs

\* checkWinCondition()
CheckWinCondition(gs, bs) ==
    LET bot1Dead == bs[1].health <= 0
        bot2Dead == bs[2].health <= 0
    IN  IF bot1Dead /\ bot2Dead THEN EndGame(gs, Null)
        ELSE IF bot1Dead THEN EndGame(gs, 1)
        ELSE IF bot2Dead THEN EndGame(gs, 0)
        ELSE gs

(***************************************************************************)
(* The update pipeline (update, src/game.js 835-858)                       *)
(***************************************************************************)
BotName(i) == IF i = 1 THEN "0" ELSE "1"

\* updateUI(): the timer
UpdateUI(gs, now) ==
    IF gs.startTime # Null THEN [gs EXCEPT !.elapsedTime = now - gs.startTime] ELSE gs

\* What update() leaves: log is what the tick did up to the wall collisions,
\* c what checkBotCollisions did
UpdateResult(gs, log, c, now) ==
    LET won == CheckWinCondition(gs, c.bots)
    IN  [gs |-> UpdateUI(won, now),
         bots |-> c.bots,
         particles |-> FilterAlive([i \in DOMAIN c.particles |->
                                       ParticleUpdate(c.particles[i])]),
         log |-> log \o c.log
                 \o <<"particles", "winCheck">>
                 \o (IF won.gameOver THEN <<"endGame">> ELSE <<>>)
                 \o <<"updateUI">>]

\* The rest of update() once the bots have moved and bounced off the walls
\* (s): the bot collisions, the particles, the win check, the timer; and the
\* log of the tick
UpdateEnd(gs, s, now) ==
    UpdateResult(gs, s.log, CheckBotCollisions(s.bots, s.particles, now), now)

\* The update of bot i with a Regeneration that keeps the time of its last
\* heal on the plugin instance, which the bots of one tweak id share, and not
\* on the bot
UpdateBotTimerOnPlugin(s, i, now) ==
    LET timer == IF s.bots[3 - i].tweakPlugin = s.bots[i].tweakPlugin
                 THEN Max(s.bots[i].lastRegenTime, s.bots[3 - i].lastRegenTime)
                 ELSE s.bots[i].lastRegenTime
        u == BotUpdate([s.bots[i] EXCEPT !.lastRegenTime = timer], s.particles, now)
    IN  [s EXCEPT !.bots[i] = u.bot,
                  !.particles = u.particles,
                  !.log = s.log \o u.log]

\* bots.forEach(bot => bot.update(deltaTime)), for bot i: s holds the bots,
\* the particles, and what the tick has done so far
UpdateBot(s, i, now) ==
    LET u == BotUpdate(s.bots[i], s.particles, now)
    IN  [s EXCEPT !.bots[i] = u.bot,
                  !.particles = u.particles,
                  !.log = s.log \o u.log]

\* bots.forEach(bot => checkWallCollision(bot)), for bot i
WallBot(vertices, s, i) ==
    LET w == CheckWallCollision(vertices, s.bots[i], s.particles)
    IN  [s EXCEPT !.bots[i] = w.bot, !.particles = w.particles,
                  !.log = s.log \o <<"wall:" \o BotName(i)>>]

\* An update() that bounces the bots off the walls before it moves them
UpdateTickWallsFirst(vertices, gs, bs, ps, now) ==
    UpdateEnd(gs,
              UpdateBot(
                  UpdateBot(
                      WallBot(vertices,
                          WallBot(vertices, [bots |-> bs, particles |-> ps, log |-> <<>>],
                                  1),
                          2),
                      1, now),
                  2, now),
              now)

\* The body of update() after its guard: the game state, the bots, the
\* particles and the log of the tick
UpdateTick(vertices, gs, bs, ps, now) ==
    UpdateEnd(gs,
              WallBot(vertices,
                  WallBot(vertices,
                      UpdateBot(
                          UpdateBot([bots |-> bs, particles |-> ps, log |-> <<>>],
                                    1, now),
                          2, now),
                      1),
                  2),
              now)

\* update()
Update(vertices, gs, bs, ps, now) ==
    IF gs.gameOver THEN [gs |-> gs, bots |-> bs, particles |-> ps, log |-> <<>>]
    ELSE UpdateTick(vertices, gs, bs, ps, now)

(***************************************************************************)
(* State                                                                   *)
(***************************************************************************)
VARIABLES
    gameState,        \* running, gameOver, winner, startTime, elapsedTime, tweaks
    bots,             \* the bots array: empty, or the two bots of the match
    particles,        \* the particles array
    tweakRegistry,    \* tweakRegistry.tweaks: id -> plugin
    selected,         \* the checked radio button of each bot's tweak group
    menuVisible,      \* preGameMenuEl is displayed
    gameOverVisible,  \* gameOverEl is displayed
    rafPending,       \* gameLoop callbacks requested and not yet run
    now,              \* the wall clock, Date.now()
    log,              \* what the last handler did, in order
    returned,         \* the value the last direct call of a function returned
    calls,            \* the direct calls made so far, in order
    aiTweaks,         \* aiTweaks: the plugin generated for each bot, or null
    overlayOpen,      \* each bot's authoring overlay is displayed
    requests,         \* each bot's generateBotTweak call that has not returned
    closeTimers,      \* the pending setTimeout(closeBotAIOverlay) of each bot
    aiStatus          \* the text of each bot's status element, and of aiStatus

vars == <<gameState, bots, particles, tweakRegistry, selected, menuVisible,
          gameOverVisible, rafPending, now, log, returned, calls,
          aiTweaks, overlayOpen, requests, closeTimers, aiStatus>>

\* The state of the authoring interface
aiVars == <<aiTweaks, overlayOpen, requests, closeTimers, aiStatus>>

\* null where a plugin is expected
NullTweak == TweakPlugin("null", "null", 0)

\* The code of a response: a snippet that returns a plugin of the given id,
\* a snippet that fails (kind), or no code at all
PluginCode(id, inst) == [kind |-> "plugin", id |-> id, inst |-> inst]
FailingCode(kind) == [kind |-> kind, id |-> "", inst |-> 0]
UndefinedCode == FailingCode("undefined")

\* No generateBotTweak call is running for the bot
Idle == [phase |-> "idle", code |-> UndefinedCode]

\* let aiTweaks = {bot1: null, bot2: null}, and the page as it is loaded
InitAI ==
    /\ aiTweaks = [bot1 |-> NullTweak, bot2 |-> NullTweak]
    /\ overlayOpen = [bot1 |-> FALSE, bot2 |-> FALSE]
    /\ requests = [bot1 |-> Idle, bot2 |-> Idle]
    /\ closeTimers = [bot1 |-> 0, bot2 |-> 0]
    /\ aiStatus = [bot1 |-> "", bot2 |-> "", start |-> ""]

(***************************************************************************)
(* Bounds and inputs                                                       *)
(***************************************************************************)
\* Date.now() when the page is loaded
InitialNow == 100000
\* No frame is run after the clock passes MaxNow
MaxNow == 124500
\* At most MaxRaf frame callbacks pending
MaxRaf == 2

\* The time between two frames of a 60 Hz display, in ms
FrameGaps == {16}

\* The values Math.random() gives a match: the velocity and the body angle
\* of each bot
MatchDraws ==
    { [v1 |-> Vector2(64, 64), v2 |-> Vector2(48, -48), a1 |-> 1952, a2 |-> 5094] }

TweakChoices == {"none", "smaller", "extra-life", "regeneration"}

(***************************************************************************)
(* Init: the page is loaded (init, src/game.js 695-722; showPreGameMenu)   *)
(***************************************************************************)
Init ==
    /\ InitAI
    /\ gameState = [running |-> FALSE, gameOver |-> FALSE, winner |-> Null,
                    startTime |-> Null, elapsedTime |-> 0,
                    tweaks |-> [bot1 |-> "none", bot2 |-> "none"]]
    /\ bots = <<>>
    /\ particles = <<>>
    /\ tweakRegistry = NewTweakRegistry
    /\ selected = [bot1 |-> "none", bot2 |-> "none"]
    /\ menuVisible = TRUE
    /\ gameOverVisible = FALSE
    /\ rafPending = 0
    /\ now = InitialNow
    /\ log = <<>>
    /\ returned = Null
    /\ calls = <<>>

(***************************************************************************)
(* Actions                                                                 *)
(***************************************************************************)
\* gameLoop() after update() has left u: draw(), and the next frame is
\* requested
DrawAndRequest(u) ==
    [gs |-> u.gs, bots |-> u.bots, particles |-> u.particles,
     log |-> u.log \o Draw(u.bots), raf |-> 1]

\* A gameLoop that ticks whether or not a match is running
GameLoopUnguarded(gs, bs, ps, t) ==
    IF bs = <<>>
    THEN [gs |-> gs, bots |-> bs, particles |-> ps, log |-> <<>>, raf |-> 0]
    ELSE DrawAndRequest(UpdateTick(ArenaVertices, gs, bs, ps, t))

\* gameLoop(): one update and one draw, and the next frame is requested
GameLoop(gs, bs, ps, t) ==
    IF ~gs.running
    THEN [gs |-> gs, bots |-> bs, particles |-> ps, log |-> <<>>, raf |-> 0]
    ELSE DrawAndRequest(Update(ArenaVertices, gs, bs, ps, t))

\* A change event of a tweak radio button (handleTweakSelection): 'ai-custom'
\* shows the bot's overlay (showBotAIOverlay), any other value clears the
\* bot's generated plugin
SelectTweak(botNumber, value) ==
    /\ menuVisible
    /\ selected[botNumber] # value
    /\ selected' = [selected EXCEPT ![botNumber] = value]
    /\ IF value = "ai-custom"
       THEN /\ overlayOpen' = [overlayOpen EXCEPT ![botNumber] = TRUE]
            /\ aiStatus' = [aiStatus EXCEPT ![botNumber] = ""]
            /\ UNCHANGED aiTweaks
       ELSE /\ aiTweaks' = [aiTweaks EXCEPT ![botNumber] = NullTweak]
            /\ UNCHANGED <<overlayOpen, aiStatus>>
    /\ log' = <<"select">>
    /\ UNCHANGED <<gameState, bots, particles, tweakRegistry, menuVisible,
                   gameOverVisible, rafPending, now, returned, calls, requests,
                   closeTimers>>

\* A handleStartGameWithAI without the checks of lines 1515-1527
NeedsAITweakUnchecked(botNumber) == FALSE

\* handleStartGameWithAI finds 'ai-custom' checked for a bot that has no
\* generated plugin
NeedsAITweak(botNumber) ==
    selected[botNumber] = "ai-custom" /\ aiTweaks[botNumber] = NullTweak

\* The id handleStartGameWithAI stores in gameState.tweaks for the bot
StartTweakId(botNumber) ==
    IF selected[botNumber] = "ai-custom" THEN aiTweaks[botNumber].id
    ELSE selected[botNumber]

\* A click on the start button: handleStartGameWithAI, startGame and the
\* first gameLoop call
StartGame(draw) ==
    /\ menuVisible
    /\ rafPending < MaxRaf
    /\ ~NeedsAITweak("bot1") /\ ~NeedsAITweak("bot2")
    /\ UNCHANGED aiVars
    /\ LET gs0 == [gameState EXCEPT
                     !.tweaks = [bot1 |-> StartTweakId("bot1"),
                                 bot2 |-> StartTweakId("bot2")],
                     !.running = TRUE, !.gameOver = FALSE, !.winner = Null,
                     !.startTime = now, !.elapsedTime = 0]
           bs0 == <<NewBot(300, 250, 0, gs0.tweaks.bot1, draw.v1, draw.a1,
                           tweakRegistry, now),
                    NewBot(500, 350, 1, gs0.tweaks.bot2, draw.v2, draw.a2,
                           tweakRegistry, now)>>
       IN  \E g \in {GameLoop(UpdateUI(gs0, now), bs0, <<>>, now)} :
           /\ gameState' = g.gs
           /\ bots' = g.bots
           /\ particles' = g.particles
           /\ rafPending' = rafPending + g.raf
           /\ log' = <<"startGame", "onBotInit:0", "onBotInit:1">> \o g.log
    /\ menuVisible' = FALSE
    /\ gameOverVisible' = gameState'.gameOver
    /\ UNCHANGED <<tweakRegistry, selected, now, returned, calls>>

\* The bots with the plugin the registry now holds for their tweak id
Rebound(bs, tweaks) ==
    [i \in DOMAIN bs |-> [bs[i] EXCEPT !.tweakPlugin = RegistryGet(tweaks, bs[i].tweakId)]]

\* A frame whose bots look their plugin up in the registry
FrameRebinding(dt, deadline) ==
    /\ UNCHANGED aiVars
    /\ rafPending > 0
    /\ now + dt <= deadline
    /\ now' = now + dt
    /\ \E g \in {GameLoop(gameState, Rebound(bots, tweakRegistry), particles, now + dt)} :
           /\ gameState' = g.gs
           /\ bots' = g.bots
           /\ particles' = g.particles
           /\ rafPending' = rafPending - 1 + g.raf
           /\ log' = <<"gameLoop">> \o g.log
           /\ gameOverVisible' = (gameOverVisible \/ g.gs.gameOver)
    /\ UNCHANGED <<tweakRegistry, selected, menuVisible, returned, calls>>

\* A frame: the browser runs a pending gameLoop callback, dt after the
\* previous handler and not after the deadline
Frame(dt, deadline) ==
    /\ UNCHANGED aiVars
    /\ rafPending > 0
    /\ now + dt <= deadline
    /\ now' = now + dt
    /\ \E g \in {GameLoop(gameState, bots, particles, now + dt)} :
           /\ gameState' = g.gs
           /\ bots' = g.bots
           /\ particles' = g.particles
           /\ rafPending' = rafPending - 1 + g.raf
           /\ log' = <<"gameLoop">> \o g.log
           /\ gameOverVisible' = (gameOverVisible \/ g.gs.gameOver)
    /\ UNCHANGED <<tweakRegistry, selected, menuVisible, returned, calls>>

\* A showPreGameMenu that leaves the bots and the particles where they are
ShowPreGameMenuKeeps ==
    /\ UNCHANGED aiVars
    /\ gameOverVisible
    /\ gameState' = [gameState EXCEPT !.running = FALSE, !.gameOver = FALSE]
    /\ menuVisible' = TRUE
    /\ gameOverVisible' = FALSE
    /\ log' = <<"showPreGameMenu">>
    /\ UNCHANGED <<bots, particles, tweakRegistry, selected, rafPending, now,
                   returned, calls>>

\* A click on the restart button of the game-over screen: showPreGameMenu
ShowPreGameMenu ==
    /\ UNCHANGED aiVars
    /\ gameOverVisible
    /\ gameState' = [gameState EXCEPT !.running = FALSE, !.gameOver = FALSE]
    /\ menuVisible' = TRUE
    /\ gameOverVisible' = FALSE
    /\ bots' = <<>>
    /\ particles' = <<>>
    /\ log' = <<"showPreGameMenu">>
    /\ UNCHANGED <<tweakRegistry, selected, rafPending, now, returned, calls>>

Next ==
    \/ \E b \in {"bot1", "bot2"}, v \in TweakChoices : SelectTweak(b, v)
    \/ \E d \in MatchDraws : StartGame(d)
    \/ \E dt \in FrameGaps : Frame(dt, MaxNow)
    \/ ShowPreGameMenu

Spec == Init /\ [][Next]_vars

(***************************************************************************)
(* The match: properties of Spec                                           *)
(***************************************************************************)
\* The last handler did e
InLog(e) == \E i \in DOMAIN log : log[i] = e

\* The last handler ran the tick of a match
Ticked == InLog("winCheck")

\* C1: after the win check of a tick, and for as long as the match is over:
\* exactly one bot with health <= 0 makes the other bot's id the winner, both
\* with health <= 0 make a draw (winner null), and with neither the match
\* goes on, gameOver false.
C1_WinCondition ==
    (Ticked \/ gameState.gameOver) =>
        LET dead1 == bots[1].health <= 0
            dead2 == bots[2].health <= 0
        IN  /\ (dead1 /\ ~dead2) =>
                  gameState.gameOver /\ gameState.winner = bots[2].id
            /\ (dead2 /\ ~dead1) =>
                  gameState.gameOver /\ gameState.winner = bots[1].id
            /\ (dead1 /\ dead2) =>
                  gameState.gameOver /\ gameState.winner = Null
            /\ (~dead1 /\ ~dead2) =>
                  ~gameState.gameOver /\ gameState.running

\* C1 witness: both bots lost their last health in one tick and the match
\* ended in a draw
C1_Witness ==
    /\ gameState.gameOver
    /\ InLog("endGame")
    /\ InLog("onBotDamage:0") /\ InLog("onBotDamage:1")
    /\ bots[1].health = 0 /\ bots[2].health = 0
    /\ gameState.winner = Null

\* C5: a tick that detected no bot-bot collision ran no hit check, lowered no
\* bot's health and changed no bot's lastHitTime, and a tick detects no
\* collision only if it leaves the centers at least radius1 + radius2 apart.
C5_HitsOnlyOnCollision ==
    [][(Ticked' /\ ~InLog("collision")' /\ bots # <<>>) =>
          /\ ~BotsCollide(bots'[1], bots'[2])
          /\ ~InLog("heelCheck:0")' /\ ~InLog("heelCheck:1")'
          /\ ~InLog("takeDamage:0")' /\ ~InLog("takeDamage:1")'
          /\ \A i \in {1, 2} :
                /\ bots'[i].health >= bots[i].health
                /\ bots'[i].lastHitTime = bots[i].lastHitTime]_vars

\* C5 witness: a tick with a collision whose hit check took a health
C5_Witness ==
    /\ Ticked
    /\ InLog("collision")
    /\ InLog("onBotDamage:1")
    /\ bots[2].lastHitTime = now
    /\ bots[2].health = bots[2].maxHealth - 1

(***************************************************************************)
(* The registry on its own: register, get and the Bot constructor called   *)
(* directly (TweakRegistry, src/game.js 131-158; generateBotTweak          *)
(* registers whatever plugin the authored code returns, line 1300)         *)
(***************************************************************************)
\* At most MaxAuthored instances are authored for one id
MaxAuthored == 2
\* At most MaxRegisterCalls register calls after the built-in ones
MaxRegisterCalls == 3

\* The plugins an authored snippet may return: any id, also a built-in one
AuthoredPlugins ==
    { TweakPlugin(id, "AuthoredTweak", n) :
        id \in {"none", "smaller", "custom"}, n \in 1..MaxAuthored }

\* The ids looked up
LookupIds == {"none", "smaller", "regeneration", "custom", "unknown", "ai-custom"}

\* tweakRegistry.register(tweak)
CallRegister(tweak) ==
    /\ UNCHANGED aiVars
    /\ Len(calls) < MaxRegisterCalls
    /\ tweakRegistry' = Register(tweakRegistry, tweak)
    /\ calls' = Append(calls, tweak)
    /\ returned' = Null
    /\ log' = <<"register", tweak.id>>
    /\ UNCHANGED <<gameState, bots, particles, selected, menuVisible,
                   gameOverVisible, rafPending, now>>

\* tweakRegistry.get(id)
CallGet(id) ==
    /\ UNCHANGED aiVars
    /\ returned' = RegistryGet(tweakRegistry, id)
    /\ log' = <<"get", id>>
    /\ UNCHANGED <<gameState, bots, particles, tweakRegistry, selected, menuVisible,
                   gameOverVisible, rafPending, now, calls>>

\* new Bot(300, 250, color, 0, tweakId)
CallNewBot(tweakId) ==
    /\ UNCHANGED aiVars
    /\ bots' = <<NewBot(300, 250, 0, tweakId, Vector2(0, 0), 0, tweakRegistry, now)>>
    /\ returned' = Null
    /\ log' = <<"newBot", tweakId>>
    /\ UNCHANGED <<gameState, particles, tweakRegistry, selected, menuVisible,
                   gameOverVisible, rafPending, now, calls>>

NextRegistry ==
    \/ \E t \in AuthoredPlugins : CallRegister(t)
    \/ \E id \in LookupIds : CallGet(id)
    \/ \E id \in LookupIds : CallNewBot(id)

SpecRegistry == Init /\ [][NextRegistry]_vars

\* The built-in plugins, in the order the constructor registers them
BuiltInTweaks == <<NoTweak, SmallerSizeTweak, ExtraLifeTweak, RegenerationTweak>>

\* Every register call made on the registry so far
Registered == BuiltInTweaks \o calls

\* The ids that were registered at some time
RegisteredIds == { Registered[i].id : i \in DOMAIN Registered }

\* The plugin most recently registered under id
LastRegistered(id) ==
    LET at == { i \in DOMAIN Registered : Registered[i].id = id }
    IN  Registered[CHOOSE i \in at : \A j \in at : j <= i]

\* C8: get of an id that was never registered returns the instance get('none')
\* returns, which is a plugin and not undefined; a Bot constructed with such
\* an id holds that instance as its plugin.
C8_UnknownIdFallsBackToNone ==
    /\ \A id \in LookupIds \ RegisteredIds :
          /\ RegistryGet(tweakRegistry, id) = RegistryGet(tweakRegistry, "none")
          /\ RegistryGet(tweakRegistry, id) = LastRegistered("none")
    /\ \A id \in LookupIds : RegistryGet(tweakRegistry, id) # Undefined
    /\ (log # <<>> /\ log[1] = "get" /\ log[2] \notin RegisteredIds) =>
          returned = LastRegistered("none")
    /\ (log # <<>> /\ log[1] = "newBot" /\ log[2] \notin RegisteredIds) =>
          /\ bots[1].tweakPlugin = LastRegistered("none")
          /\ bots[1].tweakId = log[2]

\* C8 witness: a bot was constructed with an id that was never registered,
\* after an authored plugin had replaced the built-in 'none'
C8_Witness ==
    /\ log = <<"newBot", "unknown">>
    /\ calls # <<>>
    /\ tweakRegistry["none"].class = "AuthoredTweak"
    /\ bots[1].tweakPlugin = tweakRegistry["none"]

\* C9: get(p.id) returns the plugin most recently registered under p.id, and
\* a register call changes the entry of no other id.
C9_RegistryRoundTrip ==
    /\ DOMAIN tweakRegistry = RegisteredIds
    /\ \A id \in RegisteredIds :
          RegistryGet(tweakRegistry, id) = LastRegistered(id)
    /\ (log # <<>> /\ log[1] = "get" /\ log[2] \in RegisteredIds) =>
          returned = LastRegistered(log[2])

\* C9 witness: a second plugin was registered under an id and get returns it,
\* while another authored id keeps its plugin
C9_Witness ==
    /\ Len(calls) = 3
    /\ calls[1].id = "custom" /\ calls[3].id = "custom" /\ calls[2].id = "smaller"
    /\ calls[1] # calls[3]
    /\ log = <<"get", "custom">>
    /\ returned = calls[3]
    /\ tweakRegistry["smaller"] = calls[2]

(***************************************************************************)
(* One bot on its own: takeDamage and update called directly at chosen     *)
(* clock readings (Bot, src/game.js 473-606)                               *)
(***************************************************************************)
\* At most MaxCalls direct calls on the bot
MaxCalls == 4

\* The time that passes before a call, in ms
ClockSteps == {1, 999, 59000, 60000}

\* A bot at rest, constructed when the page's clock reads InitialNow
InitBot ==
    /\ InitAI
    /\ gameState = [running |-> FALSE, gameOver |-> FALSE, winner |-> Null,
                    startTime |-> Null, elapsedTime |-> 0,
                    tweaks |-> [bot1 |-> "none", bot2 |-> "none"]]
    /\ tweakRegistry = NewTweakRegistry
    /\ \E tweakId \in TweakChoices :
          /\ bots = <<NewBot(300, 250, 0, tweakId, Vector2(0, 0), 0,
                             NewTweakRegistry, InitialNow)>>
          /\ selected = [bot1 |-> tweakId, bot2 |-> "none"]
    /\ particles = <<>>
    /\ menuVisible = FALSE
    /\ gameOverVisible = FALSE
    /\ rafPending = 0
    /\ now = InitialNow
    /\ log = <<>>
    /\ returned = Null
    /\ calls = <<>>

\* The record of a direct call on the bot
CallRecord(op, time, result, before, after) ==
    [op |-> op, time |-> time, returned |-> result, before |-> before, after |-> after]

\* bot.takeDamage(), dt after the previous call; a dead bot is hit no more
CallTakeDamage(dt) ==
    /\ UNCHANGED aiVars
    /\ Len(calls) < MaxCalls
    /\ bots[1].health > 0
    /\ now' = now + dt
    /\ \E d \in {TakeDamage(bots[1], particles, now + dt)} :
          /\ bots' = <<d.bot>>
          /\ particles' = d.particles
          /\ returned' = d.applied
          /\ calls' = Append(calls, CallRecord("takeDamage", now + dt, d.applied,
                                               bots[1], d.bot))
    /\ log' = <<"takeDamage">>
    /\ UNCHANGED <<gameState, tweakRegistry, selected, menuVisible, gameOverVisible,
                   rafPending>>

\* bot.update(16), dt after the previous call
CallUpdate(dt) ==
    /\ UNCHANGED aiVars
    /\ Len(calls) < MaxCalls
    /\ bots[1].health > 0
    /\ now' = now + dt
    /\ \E u \in {BotUpdate(bots[1], particles, now + dt)} :
          /\ bots' = <<u.bot>>
          /\ particles' = u.particles
          /\ calls' = Append(calls, CallRecord("update", now + dt, Null,
                                               bots[1], u.bot))
    /\ returned' = Null
    /\ log' = <<"update">>
    /\ UNCHANGED <<gameState, tweakRegistry, selected, menuVisible, gameOverVisible,
                   rafPending>>

NextBot ==
    \/ \E dt \in ClockSteps : CallTakeDamage(dt)
    \/ \E dt \in ClockSteps : CallUpdate(dt)

SpecBot == InitBot /\ [][NextBot]_vars

\* The calls of one operation
CallsOf(op) == { i \in DOMAIN calls : calls[i].op = op }

\* The takeDamage calls that applied damage
Hits == { i \in CallsOf("takeDamage") : calls[i].returned = TRUE }

\* The update calls that healed
Heals == { i \in CallsOf("update") : calls[i].after.health > calls[i].before.health }

\* C3: the first takeDamage call on a bot applies damage; and of two
\* takeDamage calls on a bot, the first of which applied damage and with no
\* damage applied between them, the second applies none when it comes less
\* than 1000 ms after the first (it returns false; health and lastHitTime
\* stay) and takes exactly 1 health when it comes 1000 ms or more after.
C3_InvulnerabilityWindow ==
    /\ \A j \in CallsOf("takeDamage") :
          (\A k \in Hits : k >= j) => calls[j].returned = TRUE
    /\ \A i \in Hits : \A j \in CallsOf("takeDamage") :
          (i < j /\ \A k \in Hits : ~(i < k /\ k < j)) =>
              IF calls[j].time - calls[i].time < 1000
              THEN /\ calls[j].returned = FALSE
                   /\ calls[j].after.health = calls[j].before.health
                   /\ calls[j].after.lastHitTime = calls[j].before.lastHitTime
                   /\ calls[j].after.lastHitTime = calls[i].time
              ELSE /\ calls[j].returned = TRUE
                   /\ calls[j].after.health = calls[j].before.health - 1
                   /\ calls[j].after.lastHitTime = calls[j].time

\* C3 witness: a hit, a second hit 999 ms later that was absorbed, and a third
\* 1000 ms after the first that took a health
C3_Witness ==
    /\ Len(calls) >= 3
    /\ calls[1].op = "takeDamage" /\ calls[1].returned = TRUE
    /\ calls[2].op = "takeDamage" /\ calls[2].returned = FALSE
    /\ calls[2].time = calls[1].time + 999
    /\ calls[3].op = "takeDamage" /\ calls[3].returned = TRUE
    /\ calls[3].time = calls[1].time + 1000
    /\ bots[1].health = bots[1].maxHealth - 2

\* When the bot was initialised or last regenerated, before call k
LastRegen(k) ==
    LET earlier == { i \in Heals : i < k }
    IN  IF earlier = {} THEN InitialNow
        ELSE calls[CHOOSE i \in earlier : \A j \in earlier : j <= i].time

\* C10: an update of a Regeneration bot below maxHealth heals exactly 1 when
\* 60000 ms or more have passed since the bot was initialised or last healed,
\* and records that time; no other update heals; so two heals of a bot are
\* never less than 60000 ms apart.
C10_RegenerationTiming ==
    /\ \A k \in CallsOf("update") :
          IF /\ calls[k].before.tweakPlugin.id = "regeneration"
             /\ calls[k].before.health < calls[k].before.maxHealth
             /\ calls[k].time - LastRegen(k) >= 60000
          THEN /\ calls[k].after.health = calls[k].before.health + 1
               /\ calls[k].after.lastRegenTime = calls[k].time
          ELSE /\ calls[k].after.health = calls[k].before.health
               /\ calls[k].after.lastRegenTime = calls[k].before.lastRegenTime
    /\ \A i \in Heals : \A j \in Heals :
          i < j => calls[j].time - calls[i].time >= 60000

\* C10 witness: a damaged Regeneration bot was not healed by the update
\* 59999 ms after it was initialised and was healed by the update 1 ms later
C10_Witness ==
    /\ Len(calls) >= 3
    /\ bots[1].tweakPlugin.id = "regeneration"
    /\ calls[1].op = "takeDamage"
    /\ calls[2].op = "update" /\ calls[2].time = InitialNow + 59999
    /\ calls[2].after.health = calls[2].before.health
    /\ calls[3].op = "update" /\ calls[3].time = InitialNow + 60000
    /\ calls[3].after.health = calls[3].before.health + 1

(***************************************************************************)
(* The weak-spot test on its own: isPointInAchillesHeel called directly    *)
(* (src/game.js 531-574)                                                   *)
(***************************************************************************)
\* The bots tested: bodyAngle and heelArcAngle in milliradians.  The first
\* has the arc 350..10 degrees, the second 100..200; the others have the
\* configured arc of 108 degrees, the last after several turns of the body.
ArcDraws ==
    { <<3142, 349>>, <<5760, 1745>>, <<0, HeelArcAngle>>, <<785, HeelArcAngle>>,
      <<2356, HeelArcAngle>>, <<3142, HeelArcAngle>>, <<40000, HeelArcAngle>> }

\* The directions of attack, in degrees, and the distances of the attacking
\* center, in px
AttackDegrees ==
    {0, 5, 10, 50, 54, 55, 90, 100, 126, 150, 180, 200, 234, 250, 270, 306, 350, 355}
AttackDistances == {45, 60, 70}

\* The point at the direction deg and the distance dist from the bot
AttackPoint(bot, deg, dist) ==
    VAdd(bot.position,
         VMultiply(CosSin(deg * 17453 + (deg * 29) \div 100), dist * Scale, UnitScale))

InitArc ==
    /\ InitAI
    /\ gameState = [running |-> FALSE, gameOver |-> FALSE, winner |-> Null,
                    startTime |-> Null, elapsedTime |-> 0,
                    tweaks |-> [bot1 |-> "none", bot2 |-> "none"]]
    /\ tweakRegistry = NewTweakRegistry
    /\ \E d \in ArcDraws :
          bots = <<[NewBot(300, 250, 0, "none", Vector2(0, 0), d[1],
                           NewTweakRegistry, InitialNow)
                      EXCEPT !.heelArcAngle = d[2]]>>
    /\ selected = [bot1 |-> "none", bot2 |-> "none"]
    /\ particles = <<>>
    /\ menuVisible = FALSE
    /\ gameOverVisible = FALSE
    /\ rafPending = 0
    /\ now = InitialNow
    /\ log = <<>>
    /\ returned = Null
    /\ calls = <<>>

\* bot.isPointInAchillesHeel(point, attackingRadius)
CallIsPointInAchillesHeel(deg, dist) ==
    /\ UNCHANGED aiVars
    /\ returned' = IsPointInAchillesHeel(bots[1], AttackPoint(bots[1], deg, dist),
                                         BotRadius * Scale)
    /\ calls' = <<[op |-> "isPointInAchillesHeel",
                   point |-> AttackPoint(bots[1], deg, dist),
                   attackingRadius |-> BotRadius * Scale,
                   degrees |-> deg, distance |-> dist]>>
    /\ log' = <<"isPointInAchillesHeel">>
    /\ UNCHANGED <<gameState, bots, particles, tweakRegistry, selected, menuVisible,
                   gameOverVisible, rafPending, now>>

NextArc ==
    \E deg \in AttackDegrees, dist \in AttackDistances :
        CallIsPointInAchillesHeel(deg, dist)

SpecArc == InitArc /\ [][NextArc]_vars

\* The attack angle and the arc of the last call, normalised, in tenths of a
\* degree, and whether the point passes the distance gate
ArcCase ==
    LET v == VSubtract(calls[1].point, bots[1].position)
        heel == GetAchillesHeelArc(bots[1])
    IN  [attack |-> NormalizeDegrees(Atan2(v.y, v.x)),
         start |-> NormalizeDegrees(heel.startAngle),
         end |-> NormalizeDegrees(heel.endAngle),
         inGate |-> ~MagnitudeGreater(v, bots[1].radius + calls[1].attackingRadius
                                          + 10 * Scale)]

\* C6: the normalised angles lie in [0, 360); the attack angle is the
\* direction of the attacking point; within the distance gate the test
\* answers start <= angle <= end when start <= end and angle >= start or
\* angle <= end when start > end; the arc 350..10 is hit at 355 and 5 and not
\* at 180, and the arc 100..200 is hit at 150 and not at 50 or 250.
C6_AngularContainment ==
    calls # <<>> =>
        LET c == ArcCase
            deg == calls[1].degrees
        IN  /\ {c.attack, c.start, c.end} \subseteq 0..3599
            /\ \E turn \in {-3600, 0, 3600} : Abs(c.attack - 10 * deg + turn) <= 2
            /\ (c.inGate /\ c.start <= c.end) =>
                  (returned <=> (c.start <= c.attack /\ c.attack <= c.end))
            /\ (c.inGate /\ c.start > c.end) =>
                  (returned <=> (c.attack >= c.start \/ c.attack <= c.end))
            /\ (c.inGate /\ c.start = 3500 /\ c.end = 100) =>
                  /\ deg \in {355, 5} => returned
                  /\ deg = 180 => ~returned
            /\ (c.inGate /\ c.start = 1000 /\ c.end = 2000) =>
                  /\ deg = 150 => returned
                  /\ deg \in {50, 250} => ~returned

\* C6 witness: the arc 350..10, which wraps through 0, was hit from 5 degrees
C6_Witness ==
    /\ calls # <<>>
    /\ ArcCase.start = 3500 /\ ArcCase.end = 100 /\ ArcCase.inGate
    /\ calls[1].degrees = 5
    /\ returned = TRUE

(***************************************************************************)
(* Collision resolution on its own: checkWallCollision and                 *)
(* checkBotCollisions called directly on two bots at chosen positions      *)
(* (src/game.js 860-939)                                                   *)
(***************************************************************************)
\* At most MaxPhysicsCalls direct calls on the two bots
MaxPhysicsCalls == 2

\* Positions of bot 0, in 1/Scale px: the arena center; 24 px inside vertex
\* 0, within a radius of two edges; the midpoint of edge 0, exactly on it;
\* 20 px inside that midpoint
WallPositions ==
    { Vector2(6400, 4800), Vector2(10016, 4800), Vector2(9814, 6214),
      Vector2(9518, 6092) }

\* Where bot 1 is, from bot 0: at the same point; overlapping; apart
BotOffsets == { Vector2(0, 0), Vector2(-480, -160), Vector2(-1600, 0) }

\* The vertices generateArenaVertices gives for an arena of radius 0 centered
\* 10 px right of the arena center: every edge has length 0
CollapsedVertices ==
    [i \in 1..ArenaSides |-> Vector2(ArenaCenterX * Scale + 160, ArenaCenterY * Scale)]

\* The vertex lists checkWallCollision is called with
WallVertexLists == {ArenaVertices, CollapsedVertices}

\* Velocities, in 1/Scale px per tick
PhysicsVelocities == { Vector2(0, 0), Vector2(64, -32), Vector2(-48, 48), Vector2(60, 25) }

InitPhysics ==
    /\ InitAI
    /\ gameState = [running |-> FALSE, gameOver |-> FALSE, winner |-> Null,
                    startTime |-> Null, elapsedTime |-> 0,
                    tweaks |-> [bot1 |-> "none", bot2 |-> "none"]]
    /\ tweakRegistry = NewTweakRegistry
    /\ \E p \in WallPositions, off \in BotOffsets, v1, v2 \in PhysicsVelocities :
          bots = <<[NewBot(300, 250, 0, "none", v1, 0, NewTweakRegistry, InitialNow)
                      EXCEPT !.position = p],
                   [NewBot(500, 350, 1, "none", v2, PiMilli, NewTweakRegistry, InitialNow)
                      EXCEPT !.position = VAdd(p, off)]>>
    /\ selected = [bot1 |-> "none", bot2 |-> "none"]
    /\ particles = <<>>
    /\ menuVisible = FALSE
    /\ gameOverVisible = FALSE
    /\ rafPending = 0
    /\ now = InitialNow
    /\ log = <<>>
    /\ returned = Null
    /\ calls = <<>>

\* checkWallCollision(bots[i]), with arenaVertices holding vertices
CallCheckWallCollision(i, vertices) ==
    /\ UNCHANGED aiVars
    /\ Len(calls) < MaxPhysicsCalls
    /\ \E w \in {CheckWallCollision(vertices, bots[i], particles)} :
          /\ bots' = [bots EXCEPT ![i] = w.bot]
          /\ particles' = w.particles
          /\ calls' = Append(calls, [op |-> "checkWallCollision", before |-> bots,
                                     after |-> [bots EXCEPT ![i] = w.bot],
                                     collapsed |-> vertices = CollapsedVertices])
    /\ returned' = Null
    /\ log' = <<"checkWallCollision">>
    /\ UNCHANGED <<gameState, tweakRegistry, selected, menuVisible, gameOverVisible,
                   rafPending, now>>

\* checkBotCollisions()
CallCheckBotCollisions ==
    /\ UNCHANGED aiVars
    /\ Len(calls) < MaxPhysicsCalls
    /\ \E c \in {CheckBotCollisions(bots, particles, now)} :
          /\ bots' = c.bots
          /\ particles' = c.particles
          /\ calls' = Append(calls, [op |-> "checkBotCollisions", before |-> bots,
                                     after |-> c.bots, collapsed |-> FALSE])
    /\ returned' = Null
    /\ log' = <<"checkBotCollisions">>
    /\ UNCHANGED <<gameState, tweakRegistry, selected, menuVisible, gameOverVisible,
                   rafPending, now>>

NextPhysics ==
    \/ \E i \in {1, 2}, vs \in WallVertexLists : CallCheckWallCollision(i, vs)
    \/ CallCheckBotCollisions

SpecPhysics == InitPhysics /\ [][NextPhysics]_vars

\* Both bots have the speed after call k that they had before it, within the
\* rounding of the fixed-point arithmetic (2/Scale px per tick)
SpeedKept(k) ==
    \A i \in {1, 2} :
        Abs(VMagnitude(calls[k].after[i].velocity)
            - VMagnitude(calls[k].before[i].velocity)) <= 2

\* C7: after wall-collision resolution and after bot-bot collision
\* resolution each bot has the speed it had before, in every configuration,
\* a center exactly on an edge and two coincident centers included.
C7_SpeedConserved == \A k \in DOMAIN calls : SpeedKept(k)

\* The two bots of call k had the same center
Coincident(k) == calls[k].before[1].position = calls[k].before[2].position

\* Speed is kept by every resolution but that of two bots with one center
C7_SpeedConservedApart ==
    \A k \in DOMAIN calls :
        (calls[k].op = "checkBotCollisions" /\ Coincident(k)) \/ SpeedKept(k)

\* A moving bot whose center was another's lost its speed in the resolution
C7_CoincidentStops ==
    \A k \in DOMAIN calls :
        (calls[k].op = "checkBotCollisions" /\ Coincident(k)) =>
            \A i \in {1, 2} : calls[k].after[i].velocity = Vector2(0, 0)

(***************************************************************************)
(* The end of a match: the drawn match of Spec from its tick 1505, 14      *)
(* ticks before the collision that decides it, with frames that may come   *)
(* late (a hidden tab gets no animation frame)                             *)
(***************************************************************************)
\* No frame is run after the clock passes MaxMatchNow
MaxMatchNow == 244500
\* No tick is run once bot 0's bodyAngle has reached MaxBodyAngle
MaxBodyAngle == 32552

\* The time between two frames: a frame of a 60 Hz display, or a stall of a
\* minute
MatchGaps == {16, 60000}

\* The tweaks of the two bots; none of them changes the radius, so the path
\* of the bots is that of the drawn match
SnapshotTweaks == {"none", "regeneration", "extra-life"}

\* The bots after tick 1505 of the match drawn in MatchDraws, started at
\* InitialNow with the tweaks t1 and t2: each has been hit four times, last
\* at tick 794
SnapshotBots(t1, t2) ==
    LET b1 == NewBot(300, 250, 0, t1, Vector2(91, -14), 32052, NewTweakRegistry,
                     InitialNow)
        b2 == NewBot(500, 350, 1, t2, Vector2(-54, 40), 35194, NewTweakRegistry,
                     InitialNow)
    IN  <<[b1 EXCEPT !.position = Vector2(5730, 7313),
                     !.health = b1.maxHealth - 4,
                     !.lastHitTime = InitialNow + 12688],
          [b2 EXCEPT !.position = Vector2(7901, 5775),
                     !.health = b2.maxHealth - 4,
                     !.lastHitTime = InitialNow + 12688]>>

\* The state after tick 1505 of that match
AtSnapshot(t1, t2) ==
    /\ InitAI
    /\ gameState = [running |-> TRUE, gameOver |-> FALSE, winner |-> Null,
                    startTime |-> InitialNow, elapsedTime |-> 24064,
                    tweaks |-> [bot1 |-> t1, bot2 |-> t2]]
    /\ bots = SnapshotBots(t1, t2)
    /\ particles = <<28, 28, 28, 28, 28, 36, 36, 36, 36, 36, 68, 68, 68, 68, 68>>
    /\ tweakRegistry = NewTweakRegistry
    /\ selected = [bot1 |-> t1, bot2 |-> t2]
    /\ menuVisible = FALSE
    /\ gameOverVisible = FALSE
    /\ rafPending = 1
    /\ now = InitialNow + 24064
    /\ log = <<"gameLoop", "update:0", "onBotUpdate:0", "update:1", "onBotUpdate:1",
               "wall:0", "wall:1", "botCollisions", "particles", "winCheck",
               "updateUI">> \o Draw(SnapshotBots(t1, t2))
    /\ returned = Null
    /\ calls = <<>>

InitMatch == \E t1, t2 \in SnapshotTweaks : AtSnapshot(t1, t2)

\* A frame of the match, while its ticks are within the bound
MatchFrame(dt) ==
    /\ gameState.running => bots[1].bodyAngle < MaxBodyAngle
    /\ Frame(dt, MaxMatchNow)

NextMatch ==
    \/ \E dt \in MatchGaps : MatchFrame(dt)
    \/ ShowPreGameMenu

SpecMatch == InitMatch /\ [][NextMatch]_vars

\* C2: while the match stays over, no step, a late frame callback included,
\* changes a bot's health, position, velocity or regeneration time, or the
\* winner: Regeneration does not heal after the end.
C2_NothingChangesAfterOver ==
    [][(gameState.gameOver /\ gameState'.gameOver) =>
          /\ gameState'.winner = gameState.winner
          /\ DOMAIN bots' = DOMAIN bots
          /\ \A i \in DOMAIN bots :
                /\ bots'[i].health = bots[i].health
                /\ bots'[i].position = bots[i].position
                /\ bots'[i].velocity = bots[i].velocity
                /\ bots'[i].lastRegenTime = bots[i].lastRegenTime]_vars

\* C2 witness: the match is over, its pending frame callback has run, and the
\* winner, a Regeneration bot below maxHealth whose last heal is a minute
\* old, has not been healed
C2_Witness ==
    /\ gameState.gameOver
    /\ gameState.winner = 0
    /\ rafPending = 0
    /\ log = <<"gameLoop">>
    /\ bots[1].tweakPlugin.id = "regeneration"
    /\ bots[1].health > 0 /\ bots[1].health < bots[1].maxHealth
    /\ now - bots[1].lastRegenTime >= 60000

\* How many times the last tick did e
Times(e) == IF Ticked /\ InLog(e) THEN 1 ELSE 0

\* C4: over a tick each bot's health changes by -1 for a takeDamage that
\* applied damage and by +1 for a heal of its Regeneration plugin, and by
\* nothing else: a bot loses at most 1 health in a tick, and only a bot with
\* the Regeneration plugin gains any.
C4_SoleDamagePath ==
    [][(bots # <<>> /\ bots' # <<>>) =>
          /\ bots'[1].health =
                bots[1].health - Times("onBotDamage:0")' + Times("regen:0")'
          /\ bots'[2].health =
                bots[2].health - Times("onBotDamage:1")' + Times("regen:1")'
          /\ \A i \in {1, 2} :
                /\ bots'[i].health >= bots[i].health - 1
                /\ bots'[i].health > bots[i].health =>
                      bots[i].tweakPlugin.id = "regeneration"]_vars

\* C4 witness: in one tick bot 0 was healed by Regeneration and then lost a
\* health to a hit
C4_Witness ==
    /\ Ticked
    /\ InLog("regen:0")
    /\ InLog("onBotDamage:0")
    /\ bots[1].health = 1
    /\ bots[1].lastRegenTime = now /\ bots[1].lastHitTime = now

(***************************************************************************)
(* The order of a tick and the plugin hooks: properties of Spec            *)
(***************************************************************************)
\* How many times the last handler did e
Count(e) == Cardinality({i \in DOMAIN log : log[i] = e})

\* Where the last handler did e first (0: nowhere)
Pos(e) == IF InLog(e) THEN CHOOSE i \in DOMAIN log : log[i] = e /\ \A j \in 1..(i - 1) : log[j] # e
          ELSE 0

\* The stages of a frame, in the order of gameLoop and update
FrameStages ==
    <<"update:0", "update:1", "wall:0", "wall:1", "botCollisions", "particles",
      "winCheck", "draw">>

\* The stages the last handler ran, in the order it ran them
StagesRun == SelectSeq(log, LAMBDA e : \E k \in DOMAIN FrameStages : FrameStages[k] = e)

\* The entries of the log that belong to a bot-bot collision and its hit
\* detection
IsCollisionEntry(e) ==
    e \in {"collision", "resolve", "onBotCollision:0", "onBotCollision:1",
           "heelCheck:0", "heelCheck:1", "takeDamage:0", "takeDamage:1",
           "onBotDamage:0", "onBotDamage:1"}

\* The entries of the log that are the draw pass
IsDrawEntry(e) ==
    e \in {"draw", "drawBot:0", "onBotDraw:0", "body:0", "heel:0",
           "drawBot:1", "onBotDraw:1", "body:1", "heel:1"}

\* C11: a handler that runs gameLoop (a frame, or the start of a match) runs
\* the stages of the tick once each and in the fixed order: both bots are
\* integrated, each bot is bounced off the walls, the bot-bot collision with
\* its hit detection, the particles, the win check, and then one draw pass,
\* which ends the frame; a frame that finds no match running runs none of them.
C11_StageOrder ==
    (InLog("gameLoop") \/ InLog("startGame")) =>
        \/ /\ StagesRun = FrameStages
           /\ \A i \in DOMAIN log : IsDrawEntry(log[i]) <=> i >= Pos("draw")
           /\ \A i \in DOMAIN log :
                  IsCollisionEntry(log[i]) => Pos("botCollisions") < i /\ i < Pos("particles")
        \/ /\ log = <<"gameLoop">>
           /\ ~gameState.running

\* A frame of a match in which the bots collide and a hit check is made
C11_Witness ==
    /\ InLog("gameLoop")
    /\ StagesRun = FrameStages
    /\ Pos("botCollisions") < Pos("heelCheck:0")
    /\ Pos("heelCheck:0") < Pos("particles")
    /\ gameState.running

\* The entries of the log that are the hit detection of a collision
IsHitDetection(e) ==
    e \in {"heelCheck:0", "heelCheck:1", "takeDamage:0", "takeDamage:1",
           "onBotDamage:0", "onBotDamage:1"}

\* C12: in a tick in which the bot-bot collision is detected, onBotCollision
\* is called exactly once for each of the two bots, after the positions and
\* velocities have been resolved and before every hit-detection step of the
\* tick; in a tick without a bot-bot collision it is not called.
C12_CollisionHookOncePerBot ==
    Ticked =>
        /\ Count("collision") <= 1
        /\ Count("onBotCollision:0") = Count("collision")
        /\ Count("onBotCollision:1") = Count("collision")
        /\ InLog("collision") =>
               /\ Pos("collision") < Pos("resolve")
               /\ Pos("resolve") < Pos("onBotCollision:0")
               /\ Pos("onBotCollision:0") < Pos("onBotCollision:1")
               /\ \A i \in DOMAIN log :
                      IsHitDetection(log[i]) => Pos("onBotCollision:1") < i
               /\ ~BotsCollide(bots[1], bots[2])

\* A tick with a collision in which a hit lands after both hooks were called
C12_Witness ==
    /\ Ticked
    /\ Count("onBotCollision:0") = 1
    /\ Count("onBotCollision:1") = 1
    /\ Pos("onBotCollision:1") < Pos("takeDamage:1")
    /\ InLog("onBotDamage:1")

(***************************************************************************)
(* Hit detection: checkAchillesHeelHit called directly on a defender that  *)
(* a plugin may have put in stealth mode (stealthMode is a field of the    *)
(* bot that only a plugin sets; no built-in plugin does)                   *)
(***************************************************************************)
\* At most MaxHitCalls calls of checkAchillesHeelHit
MaxHitCalls == 3

\* The time between two calls, in ms
HitGaps == {1, 999, 1000}

\* The directions, in degrees, and the distances, in px, of the attacker from
\* the defender, whose heel is centered at 180 degrees
HitDegrees == {0, 150, 180}
HitDistances == {45, 70}

\* The defender's lastHitTime at the first call: never hit, or hit 500 ms ago
HitTimes == {0, InitialNow - 500}

InitHit ==
    /\ InitAI
    /\ gameState = [running |-> FALSE, gameOver |-> FALSE, winner |-> Null,
                    startTime |-> Null, elapsedTime |-> 0,
                    tweaks |-> [bot1 |-> "none", bot2 |-> "none"]]
    /\ tweakRegistry = NewTweakRegistry
    /\ \E stealth \in BOOLEAN, deg \in HitDegrees, dist \in HitDistances,
          lastHit \in HitTimes :
          bots = <<[NewBot(300, 250, 0, "none", Vector2(0, 0), 0,
                           NewTweakRegistry, InitialNow)
                      EXCEPT !.position =
                          AttackPoint([position |-> Vector2(500 * Scale, 350 * Scale)],
                                      deg, dist)],
                   [NewBot(500, 350, 1, "none", Vector2(0, 0), 0,
                           NewTweakRegistry, InitialNow)
                      EXCEPT !.stealthMode = stealth, !.lastHitTime = lastHit]>>
    /\ selected = [bot1 |-> "none", bot2 |-> "none"]
    /\ particles = <<>>
    /\ menuVisible = FALSE
    /\ gameOverVisible = FALSE
    /\ rafPending = 0
    /\ now = InitialNow
    /\ log = <<>>
    /\ returned = Null
    /\ calls = <<>>

\* checkAchillesHeelHit(bots[0], bots[1], label), dt after the previous call
CallCheckAchillesHeelHit(dt) ==
    /\ UNCHANGED aiVars
    /\ Len(calls) < MaxHitCalls
    /\ now' = now + dt
    /\ \E h \in {CheckAchillesHeelHit(bots[1], bots[2], particles, now + dt)} :
          /\ bots' = [bots EXCEPT ![2] = h.bot]
          /\ particles' = h.particles
          /\ log' = h.log
          /\ calls' = Append(calls, [op |-> "checkAchillesHeelHit", time |-> now + dt,
                                     attacker |-> bots[1], before |-> bots[2],
                                     after |-> h.bot, log |-> h.log])
    /\ returned' = Null
    /\ UNCHANGED <<gameState, tweakRegistry, selected, menuVisible, gameOverVisible,
                   rafPending>>

NextHit == \E dt \in HitGaps : CallCheckAchillesHeelHit(dt)

SpecHit == InitHit /\ [][NextHit]_vars

\* How many times e is in the log l
CountIn(l, e) == Cardinality({i \in DOMAIN l : l[i] = e})

\* The attacker of call c is at the defender's heel and within reach
AtHeel(c) == IsPointInAchillesHeel(c.before, c.attacker.position, c.attacker.radius)

\* C13: onBotDamage is called exactly once for each takeDamage call that
\* takes a health point (its entry follows that of the call), and is not
\* called for a takeDamage call absorbed by the invulnerability window, which
\* leaves the bot as it was, nor when the hit check is skipped for stealth or
\* finds no hit, where takeDamage is not called at all.
C13_DamageHookOncePerDamage ==
    \A k \in DOMAIN calls :
        LET c == calls[k]
            hooks == CountIn(c.log, "onBotDamage:1")
            takes == CountIn(c.log, "takeDamage:1")
        IN  /\ takes <= 1
            /\ hooks = c.before.health - c.after.health
            /\ hooks = 1 => takes = 1 /\ c.log[Len(c.log)] = "onBotDamage:1"
                            /\ c.log[Len(c.log) - 1] = "takeDamage:1"
            /\ (takes = 1 /\ c.time - c.before.lastHitTime < InvulnerabilityTime) =>
                   hooks = 0 /\ c.after = c.before
            /\ (takes = 1 /\ c.time - c.before.lastHitTime >= InvulnerabilityTime) =>
                   hooks = 1
            /\ (c.before.stealthMode \/ ~AtHeel(c)) => takes = 0 /\ hooks = 0

\* A hit that took a health point and called the hook, then a hit 999 ms
\* later for which takeDamage was called and the hook was not
C13_Witness ==
    /\ Len(calls) >= 2
    /\ CountIn(calls[1].log, "onBotDamage:1") = 1
    /\ calls[2].time - calls[1].time = 999
    /\ CountIn(calls[2].log, "takeDamage:1") = 1
    /\ CountIn(calls[2].log, "onBotDamage:1") = 0

\* C17: a defender with stealthMode true when checkAchillesHeelHit is called
\* takes no damage from the call, whatever the angle of the collision and
\* whether or not it is invulnerable: its health and lastHitTime (and every
\* other field) stay, and neither takeDamage nor onBotDamage is called.
C17_StealthTakesNoDamage ==
    \A k \in DOMAIN calls :
        calls[k].before.stealthMode =>
            /\ calls[k].after.health = calls[k].before.health
            /\ calls[k].after.lastHitTime = calls[k].before.lastHitTime
            /\ calls[k].after = calls[k].before
            /\ CountIn(calls[k].log, "takeDamage:1") = 0
            /\ CountIn(calls[k].log, "onBotDamage:1") = 0

\* A defender in stealth mode, attacked at its heel from within reach, kept
\* its health: once while it was invulnerable and once when it was not
C17_Witness ==
    \E j, k \in DOMAIN calls :
        /\ calls[j].before.stealthMode
        /\ AtHeel(calls[j]) /\ AtHeel(calls[k])
        /\ IsInvulnerable(calls[j].before, calls[j].time)
        /\ ~IsInvulnerable(calls[k].before, calls[k].time)
        /\ calls[k].after.health = MaxHealth

(***************************************************************************)
(* The hooks of a match: properties of Spec                                *)
(***************************************************************************)
\* What the bot's plugin sets in onBotInit, on the defaults of the
\* constructor, is in the bot
InitApplied(bot) ==
    /\ bot.radius = IF bot.tweakPlugin.class = "SmallerSizeTweak"
                    THEN RoundDiv(BotRadius * Scale * SmallerFactorTenths, 10)
                    ELSE BotRadius * Scale
    /\ bot.maxHealth = IF bot.tweakPlugin.class = "ExtraLifeTweak"
                       THEN ExtraLifeHealth ELSE MaxHealth
    /\ IF bot.tweakPlugin.class = "RegenerationTweak"
       THEN bot.lastRegenTime # Null /\ bot.lastRegenTime >= gameState.startTime
       ELSE bot.lastRegenTime = Null

\* C14: the handler that starts a match calls onBotInit exactly once for each
\* of its two bots, in the construction of the bot, when its defaults are
\* set, and before the first update of the match; no other handler calls it;
\* and what the hook sets is in the bots all through the match.
C14_InitHookOncePerMatch ==
    /\ \A k \in {1, 2} :
          Count("onBotInit:" \o BotName(k)) = IF InLog("startGame") THEN 1 ELSE 0
    /\ InLog("startGame") =>
          /\ Pos("startGame") < Pos("onBotInit:0")
          /\ Pos("onBotInit:0") < Pos("onBotInit:1")
          /\ Pos("onBotInit:1") < Pos("update:0")
    /\ bots # <<>> => \A k \in {1, 2} : InitApplied(bots[k])

\* A match starts with an Extra Life bot and a Smaller Size bot
C14_Witness ==
    /\ InLog("startGame")
    /\ bots[1].tweakPlugin.class = "ExtraLifeTweak"
    /\ bots[1].health = ExtraLifeHealth
    /\ bots[2].tweakPlugin.class = "SmallerSizeTweak"
    /\ bots[2].radius < BotRadius * Scale

\* C15: every tick of a match that is not over calls onBotUpdate exactly
\* once for each bot, as the last step of the bot's update (after its
\* position is integrated and its speed clamped) and before the wall
\* collisions and the bot-bot collision of the tick, whether or not the bots
\* collide in the tick; a handler that runs no tick does not call it.
C15_UpdateHookOncePerTick ==
    \A k \in {1, 2} :
        LET hook == "onBotUpdate:" \o BotName(k)
        IN  IF Ticked
            THEN /\ Count(hook) = 1
                 /\ Pos(hook) = Pos("update:" \o BotName(k)) + 1
                 /\ Pos(hook) < Pos("wall:0")
                 /\ Pos(hook) < Pos("wall:1")
                 /\ Pos(hook) < Pos("botCollisions")
            ELSE Count(hook) = 0

\* A tick in which the bots collide, and the hook of each bot was called
\* before the collision
C15_Witness ==
    /\ Ticked
    /\ InLog("collision")
    /\ Pos("onBotUpdate:0") < Pos("collision")
    /\ Pos("onBotUpdate:1") < Pos("collision")
    /\ Pos("onBotUpdate:1") > 0

\* C16: a handler that draws a frame calls onBotDraw once for each bot.
C16_DrawHookOncePerFrame ==
    InLog("draw") =>
        /\ Count("draw") = 1
        /\ \A k \in {1, 2} : Count("onBotDraw:" \o BotName(k)) = 1

\* Every frame drawn calls onBotDraw twice for each bot: before the body of
\* the bot is drawn, and again before its heel is drawn
C16_DrawHookTwicePerFrame ==
    \A k \in {1, 2} :
        LET t == BotName(k)
        IN  IF InLog("draw")
            THEN /\ Count("draw") = 1
                 /\ Count("drawBot:" \o t) = 1
                 /\ Count("onBotDraw:" \o t) = 2
                 /\ log[Pos("drawBot:" \o t) + 1] = "onBotDraw:" \o t
                 /\ log[Pos("body:" \o t) + 1] = "onBotDraw:" \o t
            ELSE Count("onBotDraw:" \o t) = 0

(***************************************************************************)
(* Authoring a plugin (src/game.js 1181-1552): the overlay of a bot, the   *)
(* request to the service, the validation dialog, executeAITweakCode and   *)
(* the registration; with the start of a match and its first frames        *)
(***************************************************************************)
\* At most MaxRequests requests are sent to the service
MaxRequests == 2
\* No frame is run after the clock passes MaxAuthoringNow
MaxAuthoringNow == 100016

BotNumbers == {"bot1", "bot2"}

\* The bots whose Generate button is clicked
AuthoringBots == {"bot1"}

\* The radio buttons used
AuthoringChoices == {"none", "ai-custom"}

\* The code the service may answer with: a snippet that returns a plugin
\* (two answers give two instances with one id), one with a syntax error, one
\* that throws, one that returns something that is not a TweakPlugin
ResponseCodes ==
    {PluginCode("custom", 1), PluginCode("custom", 2)}
    \cup {FailingCode(k) : k \in {"syntaxError", "throws", "notPlugin"}}

\* What generateTweak gives: the data of a successful answer (with its
\* validation), the data of an error answer (no code, no validation), or a
\* rejection (the fetch failed)
Responses ==
    {[kind |-> "data", validation |-> TRUE, code |-> c] : c \in ResponseCodes}
    \cup {[kind |-> "data", validation |-> FALSE, code |-> UndefinedCode],
          [kind |-> "rejected", validation |-> FALSE, code |-> UndefinedCode]}

\* An executeAITweakCode that returns whatever the snippet returned
ExecuteAITweakCodeUnchecked(code) ==
    IF code.kind \in {"plugin", "notPlugin"}
    THEN [ok |-> TRUE, plugin |-> TweakPlugin("custom", "AuthoredTweak", code.inst)]
    ELSE [ok |-> FALSE, plugin |-> NullTweak]

\* executeAITweakCode(code): the plugin the snippet returns, or an exception
\* (ok false) when new Function or the snippet throws or the result is not a
\* TweakPlugin instance
ExecuteAITweakCode(code) ==
    IF code.kind = "plugin"
    THEN [ok |-> TRUE, plugin |-> TweakPlugin(code.id, "AuthoredTweak", code.inst)]
    ELSE [ok |-> FALSE, plugin |-> NullTweak]

\* closeBotAIOverlay(botNumber): the overlay is hidden and, when the bot has
\* no generated plugin, the 'none' radio button is checked
CloseBotAIOverlay(botNumber) ==
    /\ overlayOpen' = [overlayOpen EXCEPT ![botNumber] = FALSE]
    /\ selected' = IF aiTweaks[botNumber] = NullTweak
                   THEN [selected EXCEPT ![botNumber] = "none"]
                   ELSE selected

\* generateBotTweak from line 1296: the code is executed, the plugin is
\* registered and stored for the bot and the overlay is set to close in 2 s;
\* or the exception is caught and the failure shown; the button is enabled
ExecuteAndRegister(botNumber, code) ==
    /\ \E x \in {ExecuteAITweakCode(code)} :
          IF x.ok
          THEN /\ tweakRegistry' = Register(tweakRegistry, x.plugin)
               /\ aiTweaks' = [aiTweaks EXCEPT ![botNumber] = x.plugin]
               /\ aiStatus' = [aiStatus EXCEPT ![botNumber] = "generated"]
               /\ closeTimers' = [closeTimers EXCEPT ![botNumber] = @ + 1]
               /\ log' = <<"executeAITweakCode", botNumber, code.kind, "register">>
          ELSE /\ aiStatus' = [aiStatus EXCEPT ![botNumber] = "failed"]
               /\ log' = <<"executeAITweakCode", botNumber, code.kind, "failed">>
               /\ UNCHANGED <<tweakRegistry, aiTweaks, closeTimers>>
    /\ requests' = [requests EXCEPT ![botNumber] = Idle]

\* A click on the Generate button of a bot's overlay (generateBotTweak up to
\* its first await); the button is disabled while a call is running
GenerateBotTweak(botNumber, described) ==
    /\ menuVisible
    /\ overlayOpen[botNumber]
    /\ requests[botNumber].phase = "idle"
    /\ IF described
       THEN /\ Len(calls) < MaxRequests
            /\ requests' = [requests EXCEPT ![botNumber] =
                               [phase |-> "waiting", code |-> UndefinedCode]]
            /\ aiStatus' = [aiStatus EXCEPT ![botNumber] = "creating"]
            /\ calls' = Append(calls, botNumber)
            /\ log' = <<"generateBotTweak", botNumber, "request">>
       ELSE /\ aiStatus' = [aiStatus EXCEPT ![botNumber] = "describe"]
            /\ aiStatus[botNumber] # "describe"
            /\ log' = <<"generateBotTweak", botNumber, "empty">>
            /\ UNCHANGED <<requests, calls>>
    /\ UNCHANGED <<gameState, bots, particles, tweakRegistry, selected, menuVisible,
                   gameOverVisible, rafPending, now, returned, aiTweaks, overlayOpen,
                   closeTimers>>

\* The service answers the request of a bot (generateBotTweak from line 1273
\* to its next await or its end)
Respond(botNumber, r) ==
    /\ requests[botNumber].phase = "waiting"
    /\ IF r.kind = "rejected"
       THEN /\ requests' = [requests EXCEPT ![botNumber] = Idle]
            /\ aiStatus' = [aiStatus EXCEPT ![botNumber] = "failed"]
            /\ log' = <<"response", botNumber, "rejected">>
            /\ UNCHANGED <<tweakRegistry, aiTweaks, closeTimers>>
       ELSE IF r.validation
       THEN /\ requests' = [requests EXCEPT ![botNumber] =
                               [phase |-> "dialog", code |-> r.code]]
            /\ log' = <<"response", botNumber, "showValidationDialog">>
            /\ UNCHANGED <<tweakRegistry, aiTweaks, closeTimers, aiStatus>>
       ELSE ExecuteAndRegister(botNumber, r.code)
    /\ UNCHANGED <<gameState, bots, particles, selected, menuVisible, gameOverVisible,
                   rafPending, now, returned, calls, overlayOpen>>

\* A click in the validation dialog: 'Use This Tweak' (proceed) or 'Try
\* Again' (generateBotTweak from line 1283 to its end)
DialogChoice(botNumber, proceed) ==
    /\ requests[botNumber].phase = "dialog"
    /\ IF proceed
       THEN ExecuteAndRegister(botNumber, requests[botNumber].code)
       ELSE /\ requests' = [requests EXCEPT ![botNumber] = Idle]
            /\ aiStatus' = [aiStatus EXCEPT ![botNumber] = "tryDifferently"]
            /\ log' = <<"dialog", botNumber, "tryAgain">>
            /\ UNCHANGED <<tweakRegistry, aiTweaks, closeTimers>>
    /\ UNCHANGED <<gameState, bots, particles, selected, menuVisible, gameOverVisible,
                   rafPending, now, returned, calls, overlayOpen>>

\* A click on the close button of a bot's overlay (window.closeBotAIOverlay)
CloseOverlay(botNumber) ==
    /\ menuVisible
    /\ overlayOpen[botNumber]
    /\ CloseBotAIOverlay(botNumber)
    /\ log' = <<"closeBotAIOverlay", botNumber>>
    /\ UNCHANGED <<gameState, bots, particles, tweakRegistry, menuVisible,
                   gameOverVisible, rafPending, now, returned, calls, aiTweaks,
                   requests, closeTimers, aiStatus>>

\* The timer set after a plugin was generated runs closeBotAIOverlay
CloseTimerFires(botNumber) ==
    /\ closeTimers[botNumber] > 0
    /\ closeTimers' = [closeTimers EXCEPT ![botNumber] = @ - 1]
    /\ CloseBotAIOverlay(botNumber)
    /\ log' = <<"timer", "closeBotAIOverlay", botNumber>>
    /\ UNCHANGED <<gameState, bots, particles, tweakRegistry, menuVisible,
                   gameOverVisible, rafPending, now, returned, calls, aiTweaks,
                   requests, aiStatus>>

\* A click on the start button that handleStartGameWithAI refuses: a bot has
\* 'ai-custom' checked and no generated plugin
StartRefused ==
    /\ menuVisible
    /\ NeedsAITweak("bot1") \/ NeedsAITweak("bot2")
    /\ aiStatus' = [aiStatus EXCEPT !.start = IF NeedsAITweak("bot1")
                                              THEN "generateBot1" ELSE "generateBot2"]
    /\ aiStatus'.start # aiStatus.start
    /\ log' = <<"handleStartGameWithAI", "refused">>
    /\ UNCHANGED <<gameState, bots, particles, tweakRegistry, selected, menuVisible,
                   gameOverVisible, rafPending, now, returned, calls, aiTweaks,
                   overlayOpen, requests, closeTimers>>

NextAuthoring ==
    \/ \E b \in BotNumbers, v \in AuthoringChoices : SelectTweak(b, v)
    \/ \E b \in AuthoringBots, d \in BOOLEAN : GenerateBotTweak(b, d)
    \/ \E b \in BotNumbers, r \in Responses : Respond(b, r)
    \/ \E b \in BotNumbers, p \in BOOLEAN : DialogChoice(b, p)
    \/ \E b \in BotNumbers : CloseOverlay(b)
    \/ \E b \in BotNumbers : CloseTimerFires(b)
    \/ StartRefused
    \/ \E d \in MatchDraws : StartGame(d)
    \/ \E dt \in FrameGaps : Frame(dt, MaxAuthoringNow)

SpecAuthoring == Init /\ [][NextAuthoring]_vars

(***************************************************************************)
(* Authoring: properties of SpecAuthoring                                  *)
(***************************************************************************)
\* The bot has a generateBotTweak call that has not returned
InFlight(botNumber) == requests[botNumber].phase # "idle"

\* The bot's overlay was closed with no plugin generated while its
\* generateBotTweak call has not returned
Cancelled(botNumber) ==
    /\ InFlight(botNumber)
    /\ ~overlayOpen[botNumber]
    /\ aiTweaks[botNumber] = NullTweak

\* The step carries the bot's generateBotTweak call on: the response
\* arrives, or the call runs to its end
Continues(botNumber) == requests'[botNumber] # requests[botNumber]

\* C18: when a bot's overlay was closed with no plugin generated while its
\* request was in flight, what the call does with the response afterwards
\* registers no plugin, leaves the bot's pending AI tweak null and does not
\* change the bot's selection.
C18_LateResponseDiscarded ==
    [][\A b \in BotNumbers :
          (Cancelled(b) /\ Continues(b)) =>
              /\ tweakRegistry' = tweakRegistry
              /\ aiTweaks'[b] = aiTweaks[b]
              /\ selected'[b] = selected[b]]_vars

\* What does hold of a response after the overlay was closed: the selection
\* stays 'none'
C18_SelectionKept ==
    [][\A b \in BotNumbers :
          (Cancelled(b) /\ Continues(b)) =>
              selected'[b] = "none" /\ selected[b] = "none"]_vars

\* C19: no authoring request runs while a match runs: whenever a
\* generateBotTweak call has not returned gameState.running is false, and no
\* step taken while a match is running changes the registry.
C19_NoAuthoringDuringMatch ==
    /\ [](\A b \in BotNumbers : InFlight(b) => ~gameState.running)
    /\ [][gameState.running => tweakRegistry' = tweakRegistry]_vars

\* The last handler ran executeAITweakCode for the bot on a snippet that
\* fails
FailedAttempt(l, botNumber) ==
    /\ Len(l) = 4
    /\ l[1] = "executeAITweakCode"
    /\ l[2] = botNumber
    /\ l[3] \in {"syntaxError", "throws", "notPlugin", "undefined"}

\* C20: when executeAITweakCode is run on a snippet that has a syntax error,
\* throws, or returns something that is not a TweakPlugin (or on no code at
\* all), the registry and the pending AI tweaks of the bots are after the
\* attempt what they were before it, the selection stays, and the bot's
\* status element shows the failure.
C20_FailedCandidateRejected ==
    [][\A b \in BotNumbers :
          FailedAttempt(log', b) =>
              /\ tweakRegistry' = tweakRegistry
              /\ aiTweaks' = aiTweaks
              /\ selected' = selected
              /\ closeTimers' = closeTimers
              /\ aiStatus'[b] = "failed"
              /\ ~InFlight(b)']_vars

\* A snippet that throws was rejected for a bot that already has a generated
\* plugin: the plugin is still pending and registered
C20_Witness ==
    /\ FailedAttempt(log, "bot1")
    /\ log[3] = "throws"
    /\ aiTweaks.bot1 = TweakPlugin("custom", "AuthoredTweak", 1)
    /\ RegistryGet(tweakRegistry, "custom") = aiTweaks.bot1
    /\ aiStatus.bot1 = "failed"


(***************************************************************************)
(* Authoring: what a match starts with                                     *)
(***************************************************************************)
\* The plugins executeAITweakCode can return for the code of an answer
Instantiated ==
    {ExecuteAITweakCode(c).plugin : c \in {d \in ResponseCodes : ExecuteAITweakCode(d).ok}}

\* The place in gameState.bots of the bot the menu calls bot1 or bot2
BotIndex(botNumber) == IF botNumber = "bot1" THEN 1 ELSE 2

\* The last handler started a match
Started == log # <<>> /\ log[1] = "startGame"

\* C21: a match never starts with a missing or broken authored plugin: when
\* startGame runs with 'ai-custom' checked for a bot, a plugin that
\* executeAITweakCode returned is stored for the bot, the bot's tweak id is
\* that plugin's id and not 'ai-custom', and the bot is constructed with a
\* plugin of that id taken from the registry
C21_StartsWithStoredPlugin ==
    Started =>
        \A b \in BotNumbers :
            selected[b] = "ai-custom" =>
                /\ aiTweaks[b] \in Instantiated
                /\ gameState.tweaks[b] = aiTweaks[b].id
                /\ gameState.tweaks[b] # "ai-custom"
                /\ Len(bots) = 2
                /\ bots[BotIndex(b)].tweakId = aiTweaks[b].id
                /\ bots[BotIndex(b)].tweakPlugin.id = aiTweaks[b].id
                /\ bots[BotIndex(b)].tweakPlugin \in Instantiated

\* A match starts with 'ai-custom' checked for bot 1 and its generated plugin
C21_Witness ==
    /\ Started
    /\ selected["bot1"] = "ai-custom"
    /\ Len(bots) = 2
    /\ bots[1].tweakPlugin = aiTweaks["bot1"]
    /\ aiTweaks["bot1"] \in Instantiated


\* C22: the plugin a bot holds is the one its constructor took from the
\* registry: no step other than the start of a match changes the tweakPlugin
\* of a bot, and no step that registers a plugin changes any bot, also when
\* the plugin registered has the id of the plugin a bot of the running match
\* holds
C22_PluginFixedAtConstruction ==
    [][/\ (bots # <<>> /\ bots' # <<>> /\ ~Started') =>
              \A i \in DOMAIN bots :
                  /\ i \in DOMAIN bots'
                  /\ bots'[i].tweakPlugin = bots[i].tweakPlugin
                  /\ bots'[i].tweakId = bots[i].tweakId
       /\ tweakRegistry' # tweakRegistry => bots' = bots]_vars

\* During a match whose bot 1 holds a generated plugin, a plugin with the
\* same id has been registered over it, and a frame has run the bot's hooks
\* since
C22_Witness ==
    /\ gameState.running
    /\ Len(bots) = 2
    /\ bots[1].tweakPlugin \in Instantiated
    /\ bots[1].tweakId \in DOMAIN tweakRegistry
    /\ tweakRegistry[bots[1].tweakId] # bots[1].tweakPlugin
    /\ tweakRegistry[bots[1].tweakId].id = bots[1].tweakPlugin.id
    /\ InLog("onBotUpdate:0")


(***************************************************************************)
(* The match: particles                                                    *)
(***************************************************************************)
\* Other contents of the particle list: none, a fresh particle, a dying one
\* among fresh ones
OtherParticles ==
    {<<>>, <<ParticleLife>>, <<ParticleDecay, ParticleLife, ParticleLife>>}

\* The tick at time t gives the same game state, the same bots and the same
\* calls whether the particle list holds ps or the particles of the state
SameTick(ps, t) ==
    LET a == Update(ArenaVertices, gameState, bots, particles, t)
        b == Update(ArenaVertices, gameState, bots, ps, t)
    IN  a.gs = b.gs /\ a.bots = b.bots /\ a.log = b.log

\* The tick at time t heals or damages a bot, or ends the match
Eventful(t) ==
    \E e \in {"regen:0", "regen:1", "takeDamage:0", "takeDamage:1", "endGame"} :
        CountIn(Update(ArenaVertices, gameState, bots, particles, t).log, e) > 0

\* C23: particles never influence gameplay: from every state of a running
\* match, the next tick gives the same bots (positions, velocities, healths
\* and the rest), the same winner and gameOver and the same hook calls with
\* any other particle list in place of the one of the state, at the same
\* clock reading; so two runs that differ in their particles only agree after
\* every tick
C23_ParticlesDoNotInfluence ==
    (gameState.running /\ Len(bots) = 2) =>
        \A ps \in OtherParticles, dt \in MatchGaps : SameTick(ps, now + dt)

\* A running match with live particles whose next tick heals or damages a bot
\* or ends the match
C23_Witness ==
    /\ gameState.running
    /\ Len(bots) = 2
    /\ particles # <<>>
    /\ \E dt \in MatchGaps : Eventful(now + dt)
    /\ \A ps \in OtherParticles, dt \in MatchGaps : SameTick(ps, now + dt)


(***************************************************************************)
(* Health                                                                  *)
(***************************************************************************)
\* C24: with the built-in plugins, every bot has health <= maxHealth in every
\* state: as constructed (ExtraLife raises both to 6), after every
\* takeDamage and after every update (Regeneration heals by one, up to
\* maxHealth)
C24_HealthAtMostMax ==
    /\ \A i \in DOMAIN bots :
          /\ \E k \in DOMAIN BuiltInTweaks : bots[i].tweakPlugin = BuiltInTweaks[k]
          /\ bots[i].health <= bots[i].maxHealth
    /\ \A k \in DOMAIN calls :
          /\ calls[k].before.health <= calls[k].before.maxHealth
          /\ calls[k].after.health <= calls[k].after.maxHealth

\* A Regeneration bot was damaged, healed back to maxHealth, and updated
\* again a minute after the heal
C24_Witness ==
    \E i \in Heals :
        /\ calls[i].after.health = calls[i].after.maxHealth
        /\ \E j \in CallsOf("update") :
              /\ j > i
              /\ calls[j].time - calls[i].time >= RegenInterval
              /\ calls[j].after.health = calls[j].after.maxHealth


\* The attacker of call c is farther from the defender than the two radii
\* and the buffer
TooFar(c) ==
    MagnitudeGreater(VSubtract(c.attacker.position, c.before.position),
                     c.before.radius + c.attacker.radius + HeelBuffer * Scale)

\* The direction of the attacker of call c, seen from the defender, is within
\* the defender's heel arc
InHeelArc(c) ==
    LET v == VSubtract(c.attacker.position, c.before.position)
        heel == GetAchillesHeelArc(c.before)
    IN  InArc(NormalizeDegrees(Atan2(v.y, v.x)),
              NormalizeDegrees(heel.startAngle), NormalizeDegrees(heel.endAngle))

\* C25: a hit check that fails the distance gate, whatever the attack angle,
\* or the angular test has no effect: the defender is left as it was (health,
\* lastHitTime, squashScale and every other field), takeDamage is not called
\* and no onBotDamage hook runs
C25_FailedGateHasNoEffect ==
    \A k \in DOMAIN calls :
        LET c == calls[k]
        IN  (TooFar(c) \/ ~InHeelArc(c)) =>
                /\ c.after = c.before
                /\ CountIn(c.log, "takeDamage:1") = 0
                /\ CountIn(c.log, "onBotDamage:1") = 0

\* A check failed the distance gate although the attacker is in the direction
\* of the heel and the defender, not in stealth mode, could be damaged
C25_Witness ==
    \E k \in DOMAIN calls :
        LET c == calls[k]
        IN  /\ TooFar(c)
            /\ InHeelArc(c)
            /\ ~c.before.stealthMode
            /\ ~IsInvulnerable(c.before, c.time)
            /\ c.after.health = c.before.health
            /\ c.log = <<"heelCheck:1">>

\* A check within reach failed the angular test
C25_AngleCase ==
    \E k \in DOMAIN calls :
        LET c == calls[k]
        IN  /\ ~TooFar(c)
            /\ ~InHeelArc(c)
            /\ ~c.before.stealthMode
            /\ ~IsInvulnerable(c.before, c.time)
            /\ c.after = c.before


(***************************************************************************)
(* Collision resolution: degenerate geometry (properties of SpecPhysics)   *)
(***************************************************************************)
\* Both components of the vector are numbers
Finite(v) == v.x # NaN /\ v.y # NaN

\* Bot 0 of call k had its center on the closest point of edge 0
OnEdge(k) == calls[k].before[1].position = Vector2(9814, 6214)

\* A bot of call k was within its radius of the point of the collapsed arena
NearCollapsed(k) ==
    \E i \in {1, 2} :
        MagnitudeLess(VSubtract(calls[k].before[i].position, CollapsedVertices[1]),
                      calls[k].before[i].radius)

\* C26: degenerate geometry never corrupts bot state: after every
\* checkWallCollision and checkBotCollisions call, two bots with one center,
\* a center exactly on an edge and edges of length 0 included, the position
\* and the velocity of every bot are finite; and a wall check against edges
\* of length 0 changes neither the position nor the velocity of a bot
C26_DegenerateGeometryKeepsFinite ==
    \A k \in DOMAIN calls :
        /\ \A i \in {1, 2} :
              /\ Finite(calls[k].after[i].position)
              /\ Finite(calls[k].after[i].velocity)
        /\ calls[k].collapsed =>
              \A i \in {1, 2} :
                  /\ calls[k].after[i].position = calls[k].before[i].position
                  /\ calls[k].after[i].velocity = calls[k].before[i].velocity

\* A wall check against the collapsed arena on a moving bot within a radius
\* of its point, and then the collision check of two bots with one center
C26_Witness ==
    /\ Len(calls) = 2
    /\ calls[1].op = "checkWallCollision"
    /\ calls[1].collapsed
    /\ NearCollapsed(1)
    /\ calls[1].before[1].velocity # Vector2(0, 0)
    /\ calls[2].op = "checkBotCollisions"
    /\ Coincident(2)
    /\ calls[2].after # calls[2].before

\* A wall check of the arena on a moving bot whose center is on edge 0
C26_OnEdgeCase ==
    \E k \in DOMAIN calls :
        /\ calls[k].op = "checkWallCollision"
        /\ ~calls[k].collapsed
        /\ OnEdge(k)
        /\ calls[k].before[1].velocity # Vector2(0, 0)
        /\ calls[k].after[1] = calls[k].before[1]


\* The particles of the state as the next tick leaves them, those the tick
\* itself creates apart
Aged == FilterAlive([i \in DOMAIN particles |-> ParticleUpdate(particles[i])])

\* C27: no state holds a particle with life <= 0, so none is left at the end
\* of an update tick; and a tick takes ParticleDecay from the life of every
\* particle, removes those that reach 0 and adds, behind the others, only
\* particles created in this tick, which have life ParticleLife -
\* ParticleDecay: so each particle is removed at most ParticleLife \div
\* ParticleDecay ticks after its creation
C27_ParticlesCulled ==
    /\ [](\A i \in DOMAIN particles :
              /\ particles[i] > 0
              /\ particles[i] <= ParticleLife - ParticleDecay)
    /\ [][(Ticked' /\ ~Started') =>
              /\ Len(particles') >= Len(Aged)
              /\ SubSeq(particles', 1, Len(Aged)) = Aged
              /\ \A i \in (Len(Aged) + 1)..Len(particles') :
                     particles'[i] = ParticleLife - ParticleDecay]_vars

\* Fourteen ticks after the snapshot its five oldest particles, which had 28
\* hundredths of life left, have been removed, and the next five, which had
\* 36, are the first of the list
C27_Witness ==
    /\ Ticked
    /\ Len(particles) >= 10
    /\ \A i \in 1..5 : particles[i] = 36 - 28
    /\ \A i \in 6..10 : particles[i] = 68 - 28


(***************************************************************************)
(* The match: its start and its reset (properties of Spec)                 *)
(***************************************************************************)
\* The bot is as its constructor and its plugin's onBotInit make it at the
\* start of a match
FreshBot(bot) ==
    /\ bot.health = bot.maxHealth
    /\ bot.maxHealth = (IF bot.tweakPlugin.class = "ExtraLifeTweak"
                        THEN ExtraLifeHealth ELSE MaxHealth)
    /\ bot.lastHitTime = 0
    /\ ~IsInvulnerable(bot, now)
    /\ bot.squashScale = SquashFull
    /\ ~bot.stealthMode
    /\ bot.stealthEndTime = Null
    /\ bot.lastRegenTime = (IF bot.tweakPlugin.class = "RegenerationTweak"
                            THEN now ELSE Null)
    /\ bot.tweakPlugin = RegistryGet(tweakRegistry, bot.tweakId)

\* C28: every match start produces fresh state: after startGame there are two
\* bots, with ids 0 and 1, each with health = maxHealth, lastHitTime = 0 (not
\* invulnerable), no stealth and the regeneration time of this start; the
\* winner is null, gameOver is false, the timer is at 0 and the particle list
\* is empty, whatever the previous match left; and after showPreGameMenu the
\* bot and particle lists are empty and running is false
C28_FreshStatePerMatch ==
    /\ Started =>
          /\ Len(bots) = 2
          /\ bots[1].id = 0 /\ bots[2].id = 1
          /\ FreshBot(bots[1]) /\ FreshBot(bots[2])
          /\ bots[1].tweakId = gameState.tweaks.bot1
          /\ bots[2].tweakId = gameState.tweaks.bot2
          /\ gameState.running
          /\ ~gameState.gameOver
          /\ gameState.winner = Null
          /\ gameState.startTime = now
          /\ gameState.elapsedTime = 0
          /\ particles = <<>>
    /\ log = <<"showPreGameMenu">> =>
          /\ bots = <<>>
          /\ particles = <<>>
          /\ ~gameState.running
          /\ ~gameState.gameOver

\* A match has started after another one, which ended with damaged bots, was
\* reset
C28_Witness ==
    /\ Started
    /\ gameState.startTime > InitialNow
    /\ Len(bots) = 2
    /\ FreshBot(bots[1]) /\ FreshBot(bots[2])


(***************************************************************************)
(* The match: two bots with one plugin (properties of SpecMatch)           *)
(***************************************************************************)
\* Regeneration is due for the bot at time t: the test of onBotUpdate on the
\* bot's own fields
RegenDue(bot, t) ==
    /\ bot.tweakPlugin.class = "RegenerationTweak"
    /\ bot.health < bot.maxHealth
    /\ t - bot.lastRegenTime >= RegenInterval

\* Both bots hold the Regeneration instance of the registry
SharedRegeneration ==
    /\ Len(bots) = 2
    /\ bots[1].tweakPlugin = RegistryGet(tweakRegistry, "regeneration")
    /\ bots[2].tweakPlugin = bots[1].tweakPlugin
    /\ bots[1].tweakPlugin.class = "RegenerationTweak"

\* C29: two bots of one tweak id hold the same plugin instance, and in every
\* tick each bot's heal and timer reset depend on that bot's own health,
\* maxHealth and lastRegenTime only: a bot is healed by one and its
\* lastRegenTime set to the time of the tick exactly when Regeneration is due
\* for the bot itself, whether or not the other bot was healed in the tick,
\* and otherwise its lastRegenTime is unchanged and its health changes by the
\* damage it took only
C29_SharedPluginIndependentState ==
    [][(Ticked' /\ ~Started' /\ Len(bots) = 2) =>
          /\ Len(bots') = 2
          /\ gameState.tweaks.bot1 = gameState.tweaks.bot2 =>
                bots[1].tweakPlugin = bots[2].tweakPlugin
          /\ \A i \in {1, 2} :
                LET due == RegenDue(bots[i], now')
                    tag == BotTag(bots[i])
                IN  /\ bots'[i].tweakPlugin = bots[i].tweakPlugin
                    /\ bots'[i].lastRegenTime = (IF due THEN now'
                                                 ELSE bots[i].lastRegenTime)
                    /\ CountIn(log', "regen:" \o tag) = (IF due THEN 1 ELSE 0)
                    /\ bots'[i].health = bots[i].health + (IF due THEN 1 ELSE 0)
                                         - CountIn(log', "onBotDamage:" \o tag)]_vars

\* Both bots hold the one Regeneration instance and the last tick healed
\* both: the timer reset of bot 0 did not keep bot 1 from its heal
C29_Witness ==
    /\ SharedRegeneration
    /\ gameState.running
    /\ InLog("regen:0") /\ InLog("regen:1")
    /\ bots[1].lastRegenTime = now /\ bots[2].lastRegenTime = now


(***************************************************************************)
(* The game loop: pending frame callbacks (properties of Spec)             *)
(***************************************************************************)
\* C30: at most one game-loop callback chain is live: while a match is
\* running there is never more than one pending requestAnimationFrame
\* callback of gameLoop, so update runs at most once per display frame
C30_SingleLoopChain == gameState.running => rafPending <= 1

\* A callback that finds no match running runs no update and requests no
\* further callback; one that finds a match running requests one
C30_StaleCallbackEnds ==
    [][/\ (log' = <<"gameLoop">>) =>
              (~gameState.running /\ bots' = bots /\ rafPending' = rafPending - 1)
       /\ (log' # <<>> /\ log'[1] = "gameLoop" /\ gameState.running) =>
              (Ticked' /\ rafPending' = rafPending)]_vars


(***************************************************************************)
(* Two matches of fast bots.  In the first both bots start at nearly the   *)
(* greatest speed the constructor can draw (components of -4 to 4 px per   *)
(* tick) and meet head-on in tick 124; in the second the bots collide      *)
(* beside a wall in tick 63.                                               *)
(***************************************************************************)
\* No frame is run after the clock passes MaxFastNow
MaxFastNow == 102100

\* The values Math.random() produced for the two bots
FastDraws ==
    { [v1 |-> Vector2(-61, 62), v2 |-> Vector2(-64, 63), a1 |-> 954, a2 |-> 5740],
      [v1 |-> Vector2(-19, 42), v2 |-> Vector2(-61, 25), a1 |-> 1000, a2 |-> 4000] }

NextFast ==
    \/ \E d \in FastDraws : StartGame(d)
    \/ \E dt \in FrameGaps : Frame(dt, MaxFastNow)

SpecFast == Init /\ [][NextFast]_vars

\* The centers of the two bots are farther apart than the distance gate of
\* isPointInAchillesHeel allows
BeyondGate ==
    MagnitudeGreater(VSubtract(bots[1].position, bots[2].position),
                     bots[1].radius + bots[2].radius + HeelBuffer * Scale)

\* The attacker is in the direction of the target's heel arc
FacesHeel(attacker, target) ==
    InHeelArc([attacker |-> bots[attacker], before |-> bots[target]])

\* C31: whenever a tick detects a bot-bot collision, the hit detection of the
\* tick passes its distance gate for both ordered pairs (the centers are at
\* most radius1 + radius2 + 10 apart after the separation), so a contact in
\* the direction of the defender's heel arc reaches takeDamage
C31_CollisionPassesGate ==
    (InLog("collision") /\ Len(bots) = 2) =>
        /\ ~BeyondGate
        /\ (FacesHeel(1, 2) /\ ~bots[2].stealthMode) => InLog("takeDamage:1")
        /\ (FacesHeel(2, 1) /\ ~bots[1].stealthMode) => InLog("takeDamage:0")

\* The separation moves each bot by the whole penetration, so it leaves the
\* centers radius1 + radius2 plus the penetration apart: the gate is passed
\* by the collisions that are at most 10 px deep, and a contact beyond the
\* gate reaches no takeDamage
C31_GatePassedWhenShallow ==
    (InLog("collision") /\ Len(bots) = 2) =>
        IF BeyondGate
        THEN ~InLog("takeDamage:0") /\ ~InLog("takeDamage:1")
        ELSE /\ (FacesHeel(1, 2) /\ ~bots[2].stealthMode) => InLog("takeDamage:1")
             /\ (FacesHeel(2, 1) /\ ~bots[1].stealthMode) => InLog("takeDamage:0")


(***************************************************************************)
(* The arena as a region: a point is inside the polygon when it lies on    *)
(* the side of every edge on which the arena's center lies.                *)
(***************************************************************************)
Cross(a, b) == a.x * b.y - a.y * b.x

ArenaCenter == Vector2(ArenaCenterX * Scale, ArenaCenterY * Scale)

InsideArena(p) ==
    \A i \in 1..ArenaSides :
        LET v1 == ArenaVertices[i]
            v2 == ArenaVertices[(i % ArenaSides) + 1]
            line == VSubtract(v2, v1)
        IN  /\ Cross(line, VSubtract(p, v1)) # 0
            /\ Sign(Cross(line, VSubtract(p, v1)))
                   = Sign(Cross(line, VSubtract(ArenaCenter, v1)))

\* The bot overlaps a wall: checkWallCollision would move it
OverlapsWall(bot) == CheckWallCollision(ArenaVertices, bot, <<>>).bot # bot

Collided(k) ==
    /\ calls[k].op = "checkBotCollisions"
    /\ BotsCollide(calls[k].before[1], calls[k].before[2])

\* C33: after the resolution of a bot-bot collision the two bots no longer
\* overlap: the distance of the centers is at least radius1 + radius2, so the
\* next collision test does not find the same overlap again.
C33_SeparatedAfterCollision ==
    \A k \in DOMAIN calls :
        Collided(k) => ~BotsCollide(calls[k].after[1], calls[k].after[2])

\* The resolution separates two bots whose centers differ
C33_SeparatedWhenApart ==
    \A k \in DOMAIN calls :
        (Collided(k) /\ ~Coincident(k)) =>
            ~BotsCollide(calls[k].after[1], calls[k].after[2])

\* Two bots with one center are left where they were, and the next call
\* finds the collision again
C33_CoincidentStay ==
    \A k \in DOMAIN calls :
        (Collided(k) /\ Coincident(k)) =>
            /\ \A i \in {1, 2} : calls[k].after[i].position = calls[k].before[i].position
            /\ BotsCollide(calls[k].after[1], calls[k].after[2])

\* In a match, a tick with a collision ends with the bots apart
C33_ApartAfterCollisionTick ==
    (InLog("collision") /\ Len(bots) = 2) => ~BotsCollide(bots[1], bots[2])


\* C34: with the built-in plugins a bot's health is never negative: a tick
\* takes at most 1 health from a bot, and a health of 0 ends the match in
\* the tick that produced it, so no later tick can lower it further.
C34_HealthNeverNegative ==
    \A i \in DOMAIN bots :
        /\ bots[i].health >= 0
        /\ bots[i].health = 0 => gameState.gameOver

\* C34 witness: the tick that took a bot's last health ended the match
C34_Witness ==
    /\ InLog("endGame")
    /\ gameState.gameOver
    /\ \E i \in DOMAIN bots :
           /\ InLog("takeDamage:" \o BotName(i))
           /\ bots[i].health = 0


\* C35: a dead bot is never revived: while a bot whose health has reached 0
\* is in the bots array, no step changes its health, the match stays over
\* and the winner stays what it was; no plugin update runs for it, so
\* Regeneration does not heal it.
C35_DeadNeverRevived ==
    [][\A i \in DOMAIN bots :
           (bots[i].health <= 0 /\ i \in DOMAIN bots') =>
               /\ bots'[i].health = bots[i].health
               /\ bots'[i].lastRegenTime = bots[i].lastRegenTime
               /\ gameState.gameOver /\ gameState'.gameOver
               /\ gameState'.winner = gameState.winner]_vars

\* C35 witness: the frame callback that was pending when the match ended
\* has run, and the dead bot, a Regeneration bot whose last heal is a minute
\* old, is still at health 0
C35_Witness ==
    /\ gameState.gameOver
    /\ rafPending = 0
    /\ log = <<"gameLoop">>
    /\ \E i \in DOMAIN bots :
           /\ bots[i].tweakPlugin.id = "regeneration"
           /\ bots[i].health = 0
           /\ now - bots[i].lastRegenTime >= RegenInterval


\* C36: the lifecycle of a match: running and gameOver are never both true,
\* gameOver implies that both bots exist and at least one has health <= 0,
\* and the winner is non-null only when gameOver is true.
C36_LifecycleInvariant ==
    /\ ~(gameState.running /\ gameState.gameOver)
    /\ gameState.gameOver =>
           /\ Len(bots) = 2
           /\ \E i \in DOMAIN bots : bots[i].health <= 0
    /\ gameState.winner # Null => gameState.gameOver

\* The first two parts hold in every state
C36_RunningOrOver ==
    /\ ~(gameState.running /\ gameState.gameOver)
    /\ gameState.gameOver =>
           /\ Len(bots) = 2
           /\ \E i \in DOMAIN bots : bots[i].health <= 0

\* A winner without gameOver is the winner of the last match, on the
\* pre-game menu that the restart button has brought back
C36_StaleWinnerOnMenu ==
    (gameState.winner # Null /\ ~gameState.gameOver) =>
        /\ menuVisible
        /\ ~gameState.running
        /\ bots = <<>>


(***************************************************************************)
(* Authoring for both bots: each bot's overlay is opened, a plugin is      *)
(* generated for it and accepted in the validation dialog, and a match is  *)
(* started (src/game.js 1252-1328, 1509-1552)                              *)
(***************************************************************************)
\* The answers of the service: snippets that return a plugin; two of them
\* give plugins of one id, one gives a plugin with the id of a built-in one
AuthoredResponses ==
    {[kind |-> "data", validation |-> TRUE, code |-> c] :
        c \in {PluginCode("custom", 1), PluginCode("custom", 2),
               PluginCode("smaller", 3)}}

NextTwoAuthors ==
    \/ \E b \in BotNumbers : SelectTweak(b, "ai-custom")
    \/ \E b \in BotNumbers : GenerateBotTweak(b, TRUE)
    \/ \E b \in BotNumbers, r \in AuthoredResponses : Respond(b, r)
    \/ \E b \in BotNumbers : DialogChoice(b, TRUE)
    \/ \E b \in BotNumbers : CloseTimerFires(b)
    \/ \E d \in MatchDraws : StartGame(d)
    \/ \E dt \in FrameGaps : Frame(dt, MaxAuthoringNow)

SpecTwoAuthors == Init /\ [][NextTwoAuthors]_vars

\* The bot has 'ai-custom' checked and a generated plugin
Authored(botNumber) ==
    selected[botNumber] = "ai-custom" /\ aiTweaks[botNumber] # NullTweak

\* C37: each bot plays with the plugin that was authored for it: when a
\* match starts with an authored tweak for a bot, the plugin instance the bot
\* is constructed with is the instance stored for that bot when it was
\* generated, also when the plugins of both bots carry one id or an authored
\* plugin has the id of a built-in one.
C37_PlaysOwnPlugin ==
    Started =>
        \A b \in BotNumbers :
            Authored(b) => bots[BotIndex(b)].tweakPlugin = aiTweaks[b]

\* What the constructor takes is the registry's plugin of the stored
\* plugin's id: the instance registered last under that id
C37_PlaysRegisteredPlugin ==
    Started =>
        \A b \in BotNumbers :
            Authored(b) =>
                bots[BotIndex(b)].tweakPlugin = RegistryGet(tweakRegistry, aiTweaks[b].id)

\* Bots whose stored plugins have different ids play with their own
C37_OwnPluginWhenIdsDiffer ==
    (Started /\ Authored("bot1") /\ Authored("bot2")
        /\ aiTweaks["bot1"].id # aiTweaks["bot2"].id) =>
        \A b \in BotNumbers : bots[BotIndex(b)].tweakPlugin = aiTweaks[b]


(***************************************************************************)
(* The server: POST /api/generate-tweak (src/unnamed/part_000 122-332)     *)
(* and getCritiqueFromAI (13-83).  The handler keeps no state between      *)
(* requests; calls holds the requests received, each with the place its    *)
(* handler has reached.  A text is the sequence of its characters or       *)
(* pieces.                                                                 *)
(***************************************************************************)
\* At most MaxServerRequests requests are received
MaxServerRequests == 2

\* String.prototype.trim: the text from its first to its last character that
\* is not white space
Trim(s) ==
    LET inked == {i \in 1..Len(s) : s[i] # " "}
    IN  IF inked = {} THEN <<>>
        ELSE SubSeq(s, CHOOSE i \in inked : \A j \in inked : i <= j,
                       CHOOSE i \in inked : \A j \in inked : i >= j)

\* req.body.prompt: absent, the empty string, a description
Prompts ==
    { [present |-> FALSE, text |-> <<>>],
      [present |-> TRUE, text |-> <<>>],
      [present |-> TRUE, text |-> <<"f", "a", "s", "t">>] }

\* !prompt is false
Truthy(prompt) == prompt.present /\ prompt.text # <<>>

\* What a chat.completions.create call settles with: a rejection with an
\* Error, or a response whose first choice has the given content (hasChoice
\* false: choices is empty; hasContent false: the content is null)
Rejection(message) ==
    [kind |-> "throws", message |-> message, hasChoice |-> FALSE,
     hasContent |-> FALSE, content |-> <<>>]
Completion(hasChoice, hasContent, content) ==
    [kind |-> "response", message |-> "", hasChoice |-> hasChoice,
     hasContent |-> hasContent, content |-> content]

\* The generation call: rejected; no content; code that compiles (with the
\* white space the service put around it); code with a syntax error
GenerationOutcomes ==
    { Rejection("429"), Completion(TRUE, FALSE, <<>>),
      Completion(TRUE, TRUE, <<" ", "c", "{", "}", " ">>),
      Completion(TRUE, TRUE, <<"c", "{">>) }

\* The critique call: rejected; no choice; no content; an empty text; white
\* space only; a verdict
CritiqueOutcomes ==
    { Rejection("timeout"), Completion(FALSE, FALSE, <<>>),
      Completion(TRUE, FALSE, <<>>), Completion(TRUE, TRUE, <<>>),
      Completion(TRUE, TRUE, <<" ", " ">>),
      Completion(TRUE, TRUE, <<"o", "k", " ">>) }

\* The texts getCritiqueFromAI substitutes
FallbackText ==
    <<"AI code review is temporarily unavailable. The generated code appears syntactically correct and should be safe to test.">>
ErrorText(message) == <<"AI critique unavailable due to technical error: ", message>>

\* A getCritiqueFromAI without its try/catch: a rejection of the critique
\* call is thrown to the caller
GetCritiqueFromAIUncaught(outcome) ==
    LET critiqueText == IF outcome.hasChoice /\ outcome.hasContent
                        THEN Trim(outcome.content) ELSE <<>>
    IN  IF outcome.kind = "throws"
        THEN [threw |-> TRUE, message |-> outcome.message,
              rawText |-> <<>>, isRawText |-> FALSE, fallback |-> FALSE, error |-> ""]
        ELSE IF critiqueText = <<>>
        THEN [threw |-> FALSE, message |-> "",
              rawText |-> FallbackText, isRawText |-> TRUE, fallback |-> TRUE, error |-> ""]
        ELSE [threw |-> FALSE, message |-> "",
              rawText |-> critiqueText, isRawText |-> TRUE, fallback |-> FALSE, error |-> ""]

\* getCritiqueFromAI(requestId, userRequest, generatedCode) when the
\* critique call has settled with outcome: the critique object (error "" and
\* fallback FALSE stand for properties the object does not have)
GetCritiqueFromAI(outcome) ==
    LET critiqueText == IF outcome.hasChoice /\ outcome.hasContent
                        THEN Trim(outcome.content) ELSE <<>>
    IN  IF outcome.kind = "throws"
        THEN [threw |-> FALSE, message |-> "",
              rawText |-> ErrorText(outcome.message), isRawText |-> TRUE,
              fallback |-> FALSE, error |-> outcome.message]
        ELSE IF critiqueText = <<>>
        THEN [threw |-> FALSE, message |-> "",
              rawText |-> FallbackText, isRawText |-> TRUE, fallback |-> TRUE, error |-> ""]
        ELSE [threw |-> FALSE, message |-> "",
              rawText |-> critiqueText, isRawText |-> TRUE, fallback |-> FALSE, error |-> ""]

\* The compilation check (244-262): new Function throws a SyntaxError for a
\* body whose braces do not match
CompilationError(code) ==
    IF Len(SelectSeq(code, LAMBDA t : t = "{")) = Len(SelectSeq(code, LAMBDA t : t = "}"))
    THEN "" ELSE "SyntaxError"

\* validator.validateCode(prompt, generatedCode) of the simplified
\* validator, with the compilation error added (264-272)
Validation(prompt, code) ==
    [userRequest |-> prompt.text, generatedCode |-> code,
     isValid |-> CompilationError(code) = "",
     suggestions |-> <<>>,
     compilationError |-> CompilationError(code)]

\* res.status(status).json(body)
Response(status, body) == [status |-> status, body |-> body]

\* A POST /api/generate-tweak arrives: the handler up to its first await, or
\* to the answer 400.  The request is kept with the calls it waits for (phase),
\* what they settled with, and the response (status 0: none yet)
PostGenerateTweak(prompt) ==
    /\ Len(calls) < MaxServerRequests
    /\ \E h \in { [prompt |-> prompt,
                   phase |-> IF Truthy(prompt) THEN "generating" ELSE "responded",
                   code |-> <<>>,
                   generation |-> Completion(FALSE, FALSE, <<>>),
                   critique |-> Completion(FALSE, FALSE, <<>>),
                   response |-> IF Truthy(prompt) THEN Response(0, [error |-> ""])
                                ELSE Response(400, [error |-> "Prompt is required"])] } :
          /\ calls' = Append(calls, h)
          /\ returned' = h.response
    /\ log' = <<"POST /api/generate-tweak">>
    /\ UNCHANGED <<gameState, bots, particles, tweakRegistry, selected, menuVisible,
                   gameOverVisible, rafPending, now>>
    /\ UNCHANGED aiVars

\* The generation call of request k settles: the handler from line 214 to
\* its second await, or to the catch of line 315 (a rejection, or the
\* TypeError of reading the content of no choice or trimming a null content)
GenerationSettles(k, outcome) ==
    /\ k \in DOMAIN calls
    /\ calls[k].phase = "generating"
    /\ \E h \in { IF outcome.kind = "throws" \/ ~outcome.hasChoice \/ ~outcome.hasContent
                  THEN [calls[k] EXCEPT
                          !.phase = "responded", !.generation = outcome,
                          !.response = Response(500, [error |-> "Failed to generate tweak"])]
                  ELSE [calls[k] EXCEPT
                          !.phase = "critiquing", !.generation = outcome,
                          !.code = Trim(outcome.content)] } :
          /\ calls' = [calls EXCEPT ![k] = h]
          /\ returned' = h.response
    /\ log' = <<"generation settles">>
    /\ UNCHANGED <<gameState, bots, particles, tweakRegistry, selected, menuVisible,
                   gameOverVisible, rafPending, now>>
    /\ UNCHANGED aiVars

\* The critique call of request k settles: getCritiqueFromAI returns and the
\* handler runs from line 283 to res.json(responseData) (an exception thrown
\* by getCritiqueFromAI would reach the catch of line 315).  The name and the
\* description extracted from the code are left out of the body.
CritiqueSettles(k, outcome) ==
    /\ k \in DOMAIN calls
    /\ calls[k].phase = "critiquing"
    /\ \E c \in {GetCritiqueFromAI(outcome)} :
       \E h \in { IF c.threw
                  THEN [calls[k] EXCEPT
                          !.phase = "responded", !.critique = outcome,
                          !.response = Response(500, [error |-> "Failed to generate tweak"])]
                  ELSE [calls[k] EXCEPT
                          !.phase = "responded", !.critique = outcome,
                          !.response =
                              Response(200,
                                  [code |-> calls[k].code,
                                   validation |-> Validation(calls[k].prompt, calls[k].code),
                                   aiCritique |-> c])] } :
          /\ calls' = [calls EXCEPT ![k] = h]
          /\ returned' = h.response
    /\ log' = <<"critique settles">>
    /\ UNCHANGED <<gameState, bots, particles, tweakRegistry, selected, menuVisible,
                   gameOverVisible, rafPending, now>>
    /\ UNCHANGED aiVars

NextServer ==
    \/ \E p \in Prompts : PostGenerateTweak(p)
    \/ \E k \in 1..MaxServerRequests, g \in GenerationOutcomes : GenerationSettles(k, g)
    \/ \E k \in 1..MaxServerRequests, c \in CritiqueOutcomes : CritiqueSettles(k, c)

SpecServer == Init /\ [][NextServer]_vars

\* The critique call of the request failed: it was rejected, or it gave no
\* text (no choice, no content, or only white space)
CritiqueFailed(h) ==
    \/ h.critique.kind = "throws"
    \/ ~h.critique.hasChoice
    \/ ~h.critique.hasContent
    \/ Trim(h.critique.content) = <<>>

\* The generation call of the request failed: it was rejected, or its
\* response held no generated text
GenerationFailed(h) ==
    \/ h.generation.kind = "throws"
    \/ ~h.generation.hasChoice
    \/ ~h.generation.hasContent

\* C38: a failure of the critique call never fails the generation request:
\* when the critique call is rejected or gives no text, the request is
\* answered with status 200, the generated code and an aiCritique object
\* that carries the fallback text or the error text; only a missing prompt
\* (400) or a failure of the generation call (500) gives an error response.
C38_CritiqueFailureKeepsSuccess ==
    \A k \in DOMAIN calls :
        calls[k].phase = "responded" =>
            LET h == calls[k]
                r == h.response
            IN  /\ r.status \in {200, 400, 500}
                /\ r.status = 400 <=> ~Truthy(h.prompt)
                /\ r.status = 500 <=> (Truthy(h.prompt) /\ GenerationFailed(h))
                /\ r.status = 200 =>
                      /\ r.body.code = Trim(h.generation.content)
                      /\ r.body.aiCritique.rawText # <<>>
                      /\ h.critique.kind = "throws" =>
                            /\ r.body.aiCritique.error = h.critique.message
                            /\ r.body.aiCritique.rawText = ErrorText(h.critique.message)
                      /\ (CritiqueFailed(h) /\ h.critique.kind # "throws") =>
                            /\ r.body.aiCritique.fallback
                            /\ r.body.aiCritique.rawText = FallbackText
                      /\ ~CritiqueFailed(h) =>
                            r.body.aiCritique.rawText = Trim(h.critique.content)

\* C38 witness: two requests were answered with the generated code, one
\* whose critique call was rejected and one whose critique was empty
C38_Witness ==
    /\ Len(calls) = 2
    /\ \A k \in {1, 2} : calls[k].phase = "responded" /\ calls[k].response.status = 200
    /\ calls[1].critique.kind = "throws"
    /\ calls[1].response.body.aiCritique.error = "timeout"
    /\ calls[2].critique.kind = "response"
    /\ calls[2].critique.hasContent /\ Trim(calls[2].critique.content) = <<>>
    /\ calls[2].response.body.aiCritique.fallback
    /\ calls[2].response.body.code = <<"c", "{", "}">>

=============================================================================
